---- MODULE Spec2Model ----
(***************************************************************************)
(* POSCO steel decarbonisation optimiser (src/src/model.py and its         *)
(* callers): the constraint set and objective built by build_model, the    *)
(* external MIP solver behind solve_model, extract_solution, and the       *)
(* run_single_scenario pipeline that drives them.                          *)
(*                                                                         *)
(* Fixed-point units (all values are integers):                            *)
(*   mass      Q, K, demand, unit_capacity, scrap_supply : 0.1 Mt          *)
(*   CO2       free_alloc, ETSpos                        : 0.1 MtCO2       *)
(*   emission factors ef_scope1                          : 0.1 tCO2/t      *)
(*   net emission factors ef_net                         : 0.001 tCO2/t    *)
(*   emissions (sum of ef_net * Q)                       : 100 tCO2        *)
(*   rates utilization, ccus_capture_rate                : percent         *)
(*   discount_rate                                       : a fraction      *)
(*                                                         <<num, den>>    *)
(*   intensities                                         : 0.1 unit/t      *)
(*   money                                               : 1e5 USD, so the *)
(*       source's factor 1e6 (t per Mt) times USD/t is 1 money unit per    *)
(*       mass unit and USD/t                                               *)
(***************************************************************************)
EXTENDS Integers, Sequences, FiniteSets, TLC

VARIABLES pc, driver, params, knobs, model, term, sol, obj_val, solution,
          validation, exported, result, low,
          bpc, entry, args, requested, attempted, scenario_results,
          successful_scenarios, all_solutions, results, returned, exit_code,
          probe

\* the state of one scenario run
runVars == <<pc, driver, params, knobs, model, term, sol, obj_val, solution,
             validation, exported, result, low>>

\* the state of a batch entry point
batchVars == <<bpc, entry, args, requested, attempted, scenario_results,
               successful_scenarios, all_solutions, results, returned, exit_code>>

vars == <<runVars, batchVars, probe>>

(***************************************************************************)
(* Bounds of the model.                                                    *)
(***************************************************************************)
\* Build[r,y] is explored in 0..MaxBuild (the source has no upper bound).
MaxBuild == 1
\* Q[r,y] is sampled at whole Mt: 0, 10, ..., 10*MaxQ mass units.
MaxQ == 10
\* K[r,y] is sampled at every mass unit in 0..MaxK.
MaxK == 220
\* ETSpos[y] is sampled at 0, at the emissions gap and MaxSlack whole MtCO2
\* below and above the gap.
MaxSlack == 1

(***************************************************************************)
(* Route names.  Python's `'CCUS' in route` is a substring test, so names  *)
(* are kept as character sequences.                                        *)
(***************************************************************************)
Chars(r) ==
    CASE r = "BF-BOF"      -> <<"B","F","-","B","O","F">>
      [] r = "BF-BOF+CCUS" -> <<"B","F","-","B","O","F","+","C","C","U","S">>
      [] r = "H2-DRI"      -> <<"H","2","-","D","R","I">>
      [] r = "HyREX"       -> <<"H","y","R","E","X">>
      [] r = "EAF"         -> <<"E","A","F">>
      [] r = "CCUS"        -> <<"C","C","U","S">>
      [] r = "H2"          -> <<"H","2">>

\* Python: pat in name
Contains(pat, name) ==
    LET p == Chars(pat)
        n == Chars(name)
    IN  \E i \in 1..(Len(n) - Len(p) + 1) : SubSeq(n, i, i + Len(p) - 1) = p

\* Python: sum(f[k] for k in f)
RECURSIVE SumF(_)
SumF(f) ==
    IF DOMAIN f = {} THEN 0
    ELSE LET k == CHOOSE k \in DOMAIN f : TRUE
         IN  f[k] + SumF([j \in DOMAIN f \ {k} |-> f[j]])

\* Python: min(...) / max(...) of a non-empty collection of integers
MinOf(S) == CHOOSE v \in S : \A w \in S : v <= w
MaxOf(S) == CHOOSE v \in S : \A w \in S : v >= w

RECURSIVE Pow(_, _)
Pow(b, n) == IF n = 0 THEN 1 ELSE b * Pow(b, n - 1)

ToSet(seq) == {seq[i] : i \in DOMAIN seq}

\* The set of functions f on DOMAIN C with f[k] \in C[k]
RECURSIVE Prod(_)
Prod(C) ==
    IF DOMAIN C = {} THEN {<<>>}
    ELSE LET k == CHOOSE k \in DOMAIN C : TRUE
             rest == Prod([j \in DOMAIN C \ {k} |-> C[j]])
         IN  {(k :> v) @@ f : v \in C[k], f \in rest}

(***************************************************************************)
(* Parameter bundles.                                                      *)
(***************************************************************************)
IntensityNames ==
    {"iron_ore_t", "coking_coal_t", "scrap_t", "ng_GJ", "electricity_MWh",
     "h2_kg", "fluxes_t", "alloys_USD"}

\* f"hydrogen_USD_per_kg_{hydrogen_case}"
HydrogenCommodity(hydrogen_case) ==
    CASE hydrogen_case = "baseline"   -> "hydrogen_USD_per_kg_baseline"
      [] hydrogen_case = "optimistic" -> "hydrogen_USD_per_kg_optimistic"

Commodities ==
    {"iron_ore_USD_per_t", "coking_coal_USD_per_t", "scrap_USD_per_t",
     "ng_USD_per_GJ", "electricity_USD_per_MWh", "fluxes_USD_per_t",
     "hydrogen_USD_per_kg_baseline", "hydrogen_USD_per_kg_optimistic"}

\* create_toy_parameters(): the bundle exactly as the test writes it.  It has
\* no 'scrap_supply' and no 'options' entry, and five intensity tables are
\* absent.
ToyParameters ==
    [routes        |-> {"BF-BOF", "H2-DRI"},
     years         |-> <<2025, 2026>>,
     t0            |-> 2025,
     demand        |-> (2025 :> 100) @@ (2026 :> 100),
     tech          |-> [unit_capacity |-> [r \in {"BF-BOF", "H2-DRI"} |->
                                             IF r = "BF-BOF" THEN 50 ELSE 20],
                        capex         |-> [r \in {"BF-BOF", "H2-DRI"} |->
                                             IF r = "BF-BOF" THEN 1000 ELSE 3000],
                        fixed_opex    |-> [r \in {"BF-BOF", "H2-DRI"} |->
                                             IF r = "BF-BOF" THEN 100 ELSE 200]],
     ef_scope1     |-> [r \in {"BF-BOF", "H2-DRI"} |->
                          IF r = "BF-BOF" THEN 20 ELSE 1],
     carbon_price  |-> (2025 :> 0) @@ (2026 :> 0),
     free_alloc    |-> (2025 :> 0) @@ (2026 :> 0),
     intensity     |-> [iron_ore_t    |-> [r \in {"BF-BOF", "H2-DRI"} |->
                                             IF r = "BF-BOF" THEN 15 ELSE 12],
                        coking_coal_t |-> [r \in {"BF-BOF", "H2-DRI"} |->
                                             IF r = "BF-BOF" THEN 5 ELSE 0],
                        h2_kg         |-> [r \in {"BF-BOF", "H2-DRI"} |->
                                             IF r = "BF-BOF" THEN 0 ELSE 500]],
     price_fn      |-> [kind |-> "lambda", value |-> 100]]

\* The toy bundle with the entries build_model needs but the test omits: a
\* scrap supply, the options, and zero tables for the missing intensities
\* the objective indexes (scrap_t, which build_model defaults, stays absent).
ZeroTable(routes) == [r \in routes |-> 0]

ToyParametersCompleted ==
    [ToyParameters EXCEPT
        !.intensity = [n \in IntensityNames \ {"scrap_t"} |->
                          IF n \in DOMAIN ToyParameters.intensity
                          THEN ToyParameters.intensity[n]
                          ELSE ZeroTable(ToyParameters.routes)]]
    @@ [scrap_supply |-> (2025 :> 0) @@ (2026 :> 0),
        options      |-> [hydrogen_case |-> "baseline"]]

\* The toy bundle as written plus only the two entries whose absence is a
\* KeyError: its intensity tables stay the three the test writes.
ToyParametersWithSupply ==
    ToyParameters @@ [scrap_supply |-> (2025 :> 0) @@ (2026 :> 0),
                      options      |-> [hydrogen_case |-> "baseline"]]

\* Per-route technology and intensity data of the loaded bundles.
RouteCapex(r) ==
    CASE r = "BF-BOF" -> 1 [] r = "BF-BOF+CCUS" -> 2 [] r = "H2-DRI" -> 3
      [] r = "HyREX" -> 3 [] r = "EAF" -> 2

RouteEf(r) ==
    CASE r = "BF-BOF" -> 20 [] r = "BF-BOF+CCUS" -> 20 [] r = "H2-DRI" -> 1
      [] r = "HyREX" -> 1 [] r = "EAF" -> 5

RouteIntensity(n, r) ==
    CASE n = "iron_ore_t"    -> (IF r = "EAF" THEN 0 ELSE 15)
      [] n = "coking_coal_t" -> (IF Contains("BF-BOF", r) THEN 5 ELSE 0)
      [] n = "scrap_t"       -> (IF r = "EAF" THEN 10 ELSE 0)
      [] n = "h2_kg"         -> (IF r \in {"H2-DRI", "HyREX"} THEN 50 ELSE 0)
      [] OTHER               -> 0

PerYear(years, pair) == [y \in ToSet(years) |-> IF y = years[1] THEN pair[1] ELSE pair[2]]

\* load_parameters(): the bundle it returns for a workbook with these routes,
\* years and per-year tables (scrap_supply as the bundle of the specification
\* carries it).
LoadedBundle(routes, years, demand, carbon_price, free_alloc, scrap_supply, capacity, capex) ==
    [routes        |-> routes,
     years         |-> years,
     t0            |-> MinOf(ToSet(years)),
     demand        |-> PerYear(years, demand),
     tech          |-> [unit_capacity |-> [r \in routes |->
                                             IF r = "BF-BOF" THEN capacity ELSE 40],
                        capex         |-> [r \in routes |->
                                             IF r = "BF-BOF" THEN capex ELSE RouteCapex(r)],
                        fixed_opex    |-> [r \in routes |-> 1]],
     ef_scope1     |-> [r \in routes |-> RouteEf(r)],
     carbon_price  |-> PerYear(years, carbon_price),
     free_alloc    |-> PerYear(years, free_alloc),
     scrap_supply  |-> PerYear(years, scrap_supply),
     intensity     |-> [n \in IntensityNames |-> [r \in routes |-> RouteIntensity(n, r)]],
     price_fn      |-> [kind |-> "price_data",
                        data |-> [c \in Commodities |-> [y \in ToSet(years) |-> 1]]],
     options       |-> [hydrogen_case |-> "baseline"]]

Horizons == {<<2025, 2026>>, <<2029, 2030>>, <<2030, 2031>>}

Workbooks ==
    \* incumbent and hydrogen route, across the 2030 cutoff, with an unpriced
    \* first year
    {LoadedBundle({"BF-BOF", "H2-DRI"}, ys, <<20, 20>>, <<0, 50>>, <<0, 0>>,
                  <<0, 0>>, 40, 1) :
        ys \in Horizons}
    \* the same routes with a free allocation above any emissions
    \cup {LoadedBundle({"BF-BOF", "H2-DRI"}, <<2029, 2030>>, <<20, 20>>, <<50, 50>>,
                       <<100, 100>>, <<0, 0>>, 40, 1)}
    \* incumbent and its capture-equipped variant, growing demand
    \cup {LoadedBundle({"BF-BOF", "BF-BOF+CCUS"}, <<2025, 2026>>, <<20, 30>>,
                       <<50, 50>>, fa, <<0, 0>>, 40, 1) :
            fa \in {<<0, 0>>, <<30, 30>>}}
    \* hydrogen routes only
    \cup {LoadedBundle({"H2-DRI", "HyREX"}, ys, <<20, 20>>, <<50, 50>>, <<0, 0>>,
                       <<0, 0>>, 40, 1) :
            ys \in {<<2025, 2026>>, <<2030, 2031>>}}
    \* scrap-based route under a scrap cap; build_model takes the cap as it
    \* comes, a negative one included
    \cup {LoadedBundle({"BF-BOF", "EAF"}, <<2025, 2026>>, <<20, 20>>, <<50, 50>>,
                       <<0, 0>>, ss, 40, 1) :
            ss \in {<<10, 10>>, <<0, 20>>, <<0, -10>>}}
    \* unit capacities the loader does not reject
    \cup {LoadedBundle({"BF-BOF", "H2-DRI"}, <<2025, 2026>>, dem, <<50, 50>>,
                       <<0, 0>>, <<0, 0>>, uc, 1) :
            dem \in {<<20, 30>>, <<20, 10>>}, uc \in {0, -10}}
    \* a workbook whose process_intensity sheet has no row for H2-DRI
    \cup {[LoadedBundle({"BF-BOF", "H2-DRI"}, <<2030, 2031>>, <<20, 20>>, <<50, 50>>,
                        <<0, 0>>, <<0, 0>>, 40, 1)
              EXCEPT !.intensity = [n \in IntensityNames |->
                                      [r \in {"BF-BOF"} |-> RouteIntensity(n, r)]]]}
    \* a workbook the loader rejects
    \cup {LoadedBundle({"BF-BOF", "H2-DRI"}, <<2025, 2026>>, <<20, 20>>, <<50, 50>>,
                       <<0, 0>>, <<0, 0>>, 40, -1)}

\* The workbooks multi_scenario.main is run on.
MultiWorkbooks ==
    {LoadedBundle({"BF-BOF", "H2-DRI"}, <<2025, 2026>>, <<20, 20>>, <<0, 50>>,
                  <<0, 0>>, <<0, 0>>, 40, 1),
     LoadedBundle({"H2-DRI", "HyREX"}, <<2025, 2026>>, <<20, 20>>, <<50, 50>>,
                  <<0, 0>>, <<0, 0>>, 40, 1),
     LoadedBundle({"BF-BOF", "H2-DRI"}, <<2025, 2026>>, <<20, 20>>, <<50, 50>>,
                  <<0, 0>>, <<0, 0>>, 40, -1)}

\* _validate_parameters(params): TRUE when it returns, FALSE when it raises.
\* (The price-function probe only logs a warning.)
ValidateParameters(p) ==
    /\ \A route \in p.routes :
          /\ ~(p.tech.capex[route] < 0)
          /\ ~(p.tech.fixed_opex[route] < 0)
          /\ ~(p.ef_scope1[route] < 0)
    /\ ToSet(p.years) \subseteq DOMAIN p.demand
    /\ ToSet(p.years) \subseteq DOMAIN p.carbon_price

\* Scenario knobs: discount_rate as a fraction <<num, den>>, utilization and
\* ccus_capture_rate in percent.
KnobSets ==
    {[discount_rate |-> <<1, 20>>, utilization |-> 90,  ccus_capture_rate |-> 80],
     [discount_rate |-> <<0, 1>>,  utilization |-> 100, ccus_capture_rate |-> 0],
     [discount_rate |-> <<1, 20>>, utilization |-> 100, ccus_capture_rate |-> 100]}

\* Exact rationals [num, den] with den > 0, for prices between recorded years and the
\* objective's rescaling.
Abs(v) == IF v < 0 THEN 0 - v ELSE v

RECURSIVE GCD(_, _)
GCD(a, b) == IF b = 0 THEN a ELSE GCD(b, a % b)

Rat(n, d) ==
    LET g == GCD(Abs(n), d)
    IN  [num |-> n \div g, den |-> d \div g]

\* p * q, cancelling across before multiplying
RatTimes(p, q) ==
    LET g1 == GCD(Abs(p.num), q.den)
        g2 == GCD(Abs(q.num), p.den)
    IN  [num |-> (p.num \div g1) * (q.num \div g2),
         den |-> (p.den \div g2) * (q.den \div g1)]

\* p / q for q > 0
RatDiv(p, q) == RatTimes(p, [num |-> q.den, den |-> q.num])

(***************************************************************************)
(* load_parameters.price_fn, and the toy bundle's lambda.                  *)
(***************************************************************************)
\* TRUE when price_fn(commodity, year) raises "Unknown commodity".
PriceFnRaises(pf, commodity) ==
    pf.kind = "price_data" /\ commodity \notin DOMAIN pf.data

\* price_fn with the interpolated price rounded down to whole USD.
price_fn_floor(pf, commodity, year) ==
    IF pf.kind = "lambda" THEN Rat(pf.value, 1)
    ELSE LET series      == pf.data[commodity]
             years_avail == DOMAIN series
         IN  IF year \in years_avail THEN Rat(series[year], 1)
             ELSE IF year < MinOf(years_avail) THEN Rat(series[MinOf(years_avail)], 1)
             ELSE IF year > MaxOf(years_avail) THEN Rat(series[MaxOf(years_avail)], 1)
             ELSE LET y1 == MaxOf({y \in years_avail : y <= year})
                      y2 == MinOf({y \in years_avail : y >= year})
                      p1 == series[y1]
                      p2 == series[y2]
                  IN  Rat(p1 + ((p2 - p1) * (year - y1)) \div (y2 - y1), 1)

\* price_fn(commodity, year) for a commodity it knows, as an exact rational
\* (the interpolation is a true division).
price_fn(pf, commodity, year) ==
    IF pf.kind = "lambda" THEN Rat(pf.value, 1)
    ELSE LET series      == pf.data[commodity]
             years_avail == DOMAIN series
         IN  IF year \in years_avail THEN Rat(series[year], 1)
             ELSE IF year < MinOf(years_avail) THEN Rat(series[MinOf(years_avail)], 1)
             ELSE IF year > MaxOf(years_avail) THEN Rat(series[MaxOf(years_avail)], 1)
             ELSE LET y1 == MaxOf({y \in years_avail : y <= year})
                      y2 == MinOf({y \in years_avail : y >= year})
                      p1 == series[y1]
                      p2 == series[y2]
                  IN  IF y1 = y2 THEN Rat(series[y1], 1)
                      ELSE Rat(p1 * (y2 - y1) + (p2 - p1) * (year - y1), y2 - y1)

\* The price the objective multiplies an intensity with, in whole USD: the
\* recorded price of a year of the data (every model year of a loaded bundle
\* is one), otherwise price_fn's value rounded down.
PriceUSD(pf, commodity, year) ==
    IF pf.kind = "lambda" THEN pf.value
    ELSE IF year \in DOMAIN pf.data[commodity] THEN pf.data[commodity][year]
    ELSE price_fn(pf, commodity, year).num \div price_fn(pf, commodity, year).den

(***************************************************************************)
(* build_model                                                             *)
(***************************************************************************)
\* ccus_routes = [r for r in params['routes'] if 'CCUS' in r]
ccus_routes(p) == {r \in p.routes : Contains("CCUS", r)}

\* ef_net with the capture rate applied to every route, equipped or not.
ef_net_all_routes(p, ccus_capture_rate, route) ==
    p.ef_scope1[route] * (100 - ccus_capture_rate)

\* ef_net[route], in 0.001 tCO2/t (ef_gross is in 0.1 tCO2/t and the capture
\* rate in percent, so 1.0 - ccus_capture_rate is (100 - rate) / 100).
ef_net(p, ccus_capture_rate, route) ==
    LET ef_gross == p.ef_scope1[route]
    IN  IF route \in ccus_routes(p)
        THEN ef_gross * (100 - ccus_capture_rate)
        ELSE ef_gross * 100

\* h2_routes that tests the name for 'H2' only.
h2_routes_h2_only(p) == {r \in p.routes : Contains("H2", r)}

\* h2_routes = [r for r in model.routes if 'H2' in r or 'HyREX' in r]
h2_routes(p) == {r \in p.routes : Contains("H2", r) \/ Contains("HyREX", r)}

\* intensities.get(name, {})
IntensityTable(p, name) ==
    IF name \in DOMAIN p.intensity THEN p.intensity[name] ELSE <<>>

\* scrap_init = {route: scrap_intensity.get(route, 0.0) for route in routes}
scrap_init(p) ==
    LET scrap_intensity == IntensityTable(p, "scrap_t")
    IN  [route \in p.routes |->
            IF route \in DOMAIN scrap_intensity THEN scrap_intensity[route] ELSE 0]

\* The entries build_model reads with params[...]: a missing one is a KeyError.
RequiredKeys ==
    {"routes", "years", "t0", "tech", "ef_scope1", "intensity", "demand",
     "carbon_price", "free_alloc", "scrap_supply", "price_fn", "options"}

\* The Params objective_rule indexes by route with no default.
ObjectiveIntensities == IntensityNames \ {"scrap_t"}

ObjectiveCommodities(hydrogen_case) ==
    {"iron_ore_USD_per_t", "coking_coal_USD_per_t", "scrap_USD_per_t",
     "ng_USD_per_GJ", "electricity_USD_per_MWh", "fluxes_USD_per_t",
     HydrogenCommodity(hydrogen_case)}

\* TRUE when build_model(params, ...) raises instead of returning a model.
BuildRaises(p) ==
    \/ ~(RequiredKeys \subseteq DOMAIN p)
    \/ /\ RequiredKeys \subseteq DOMAIN p
       /\ \/ \E n \in ObjectiveIntensities, r \in p.routes :
                r \notin DOMAIN IntensityTable(p, n)
          \/ \E c \in ObjectiveCommodities(p.options.hydrogen_case) :
                PriceFnRaises(p.price_fn, c)

\* The model build_model returns: sets, Params and the scenario knobs its
\* rules close over.
build_model(p, k) ==
    [routes          |-> p.routes,
     years           |-> p.years,
     ccus_routes     |-> ccus_routes(p),
     t0              |-> p.t0,
     unit_capacity   |-> p.tech.unit_capacity,
     capex           |-> p.tech.capex,
     fixed_opex      |-> p.tech.fixed_opex,
     ef_scope1_gross |-> p.ef_scope1,
     ef_net          |-> [route \in p.routes |-> ef_net(p, k.ccus_capture_rate, route)],
     intensity       |-> [n \in ObjectiveIntensities |-> IntensityTable(p, n)],
     scrap_int       |-> scrap_init(p),
     demand          |-> p.demand,
     carbon_price    |-> p.carbon_price,
     free_alloc      |-> p.free_alloc,
     scrap_supply    |-> p.scrap_supply,
     discount_rate   |-> k.discount_rate,
     utilization     |-> k.utilization,
     h2_routes       |-> h2_routes(p),
     price_fn        |-> p.price_fn,
     hydrogen_case   |-> p.options.hydrogen_case]

\* model.years.prev(year)
PrevYear(m, year) ==
    LET i == CHOOSE i \in DOMAIN m.years : m.years[i] = year
    IN  m.years[i - 1]

(***************************************************************************)
(* Variable domains and constraints.  Each rule is stated on the values    *)
(* of the variables it mentions.                                           *)
(***************************************************************************)
NonNegativeReals(v) == v >= 0
NonNegativeIntegers(v) == v \in Nat

\* demand_rule as an upper bound on production instead of an equality.
demand_rule_at_most(m, Qy, year) == SumF(Qy) <= m.demand[year]

\* 1. sum(Q[route, year] for route in routes) == demand[year]
demand_rule(m, Qy, year) == SumF(Qy) = m.demand[year]

\* capacity_rule that grants the endowment to capture-equipped routes too.
capacity_rule_endow_ccus(m, route, year, Kry, Kprev, Bry) ==
    IF year = MinOf(ToSet(m.years))
    THEN IF Contains("BF-BOF", route)
         THEN 10 * Kry = m.demand[year] * 11 + 10 * m.unit_capacity[route] * Bry
         ELSE Kry = m.unit_capacity[route] * Bry
    ELSE Kry = Kprev + m.unit_capacity[route] * Bry

\* capacity_rule that grants the first-year endowment to every route.
capacity_rule_endow_all(m, route, year, Kry, Kprev, Bry) ==
    IF year = MinOf(ToSet(m.years))
    THEN 10 * Kry = m.demand[year] * 11 + 10 * m.unit_capacity[route] * Bry
    ELSE Kry = Kprev + m.unit_capacity[route] * Bry

\* capacity_rule that does not carry last year's capacity forward.
capacity_rule_no_carry(m, route, year, Kry, Kprev, Bry) ==
    IF year = MinOf(ToSet(m.years))
    THEN IF Contains("BF-BOF", route) /\ ~Contains("CCUS", route)
         THEN 10 * Kry = m.demand[year] * 11 + 10 * m.unit_capacity[route] * Bry
         ELSE Kry = m.unit_capacity[route] * Bry
    ELSE Kry = m.unit_capacity[route] * Bry

\* 2. capacity balance; Kprev is K[route, prev(year)] (unused in the first
\*    year).  initial_cap = demand * 1.1, so the first branch is times 10.
capacity_rule(m, route, year, Kry, Kprev, Bry) ==
    IF year = MinOf(ToSet(m.years))
    THEN IF Contains("BF-BOF", route) /\ ~Contains("CCUS", route)
         THEN 10 * Kry = m.demand[year] * 11 + 10 * m.unit_capacity[route] * Bry
         ELSE Kry = m.unit_capacity[route] * Bry
    ELSE Kry = Kprev + m.unit_capacity[route] * Bry

\* utilization_rule that bounds production by capacity, without the ceiling.
utilization_rule_full(m, route, year, Qry, Kry) == 100 * Qry <= 100 * Kry

\* 3. Q[route, year] <= utilization * K[route, year]
utilization_rule(m, route, year, Qry, Kry) == 100 * Qry <= m.utilization * Kry

\* scrap_limit_rule as a strict inequality.
scrap_limit_rule_strict(m, Qy, year) ==
    SumF([route \in m.routes |-> m.scrap_int[route] * Qy[route]])
        < 10 * m.scrap_supply[year]

\* The scrap constraint skipped.
scrap_limit_rule_skipped(m, Qy, year) == TRUE

\* 4. sum(scrap_int[route] * Q[route, year]) <= scrap_supply[year]
scrap_limit_rule(m, Qy, year) ==
    SumF([route \in m.routes |-> m.scrap_int[route] * Qy[route]])
        <= 10 * m.scrap_supply[year]

\* scope1_mt = sum(ef_net[route] * Q[route, year]), in 100 tCO2
scope1(m, Qy) == SumF([route \in m.routes |-> m.ef_net[route] * Qy[route]])

\* ets_balance_rule as an equality.
ets_balance_rule_eq(m, Qy, year, Ey) ==
    1000 * Ey = scope1(m, Qy) - 1000 * m.free_alloc[year]

\* 5. ETSpos[year] >= scope1_mt - free_mt
ets_balance_rule(m, Qy, year, Ey) ==
    1000 * Ey >= scope1(m, Qy) - 1000 * m.free_alloc[year]

\* h2_timing_rule with the cutoff one year early.
h2_timing_rule_2029(m, route, year, Bry) ==
    IF route \in m.h2_routes /\ year < 2029 THEN Bry = 0 ELSE TRUE

\* 6. Build[route, year] == 0 for h2 routes before 2030, else Constraint.Skip
h2_timing_rule(m, route, year, Bry) ==
    IF route \in m.h2_routes /\ year < 2030 THEN Bry = 0 ELSE TRUE

\* Every constraint and domain of the model at the point x.
Feasible(m, x) ==
    \A year \in ToSet(m.years) :
       /\ demand_rule(m, [r \in m.routes |-> x.Q[r][year]], year)
       /\ scrap_limit_rule(m, [r \in m.routes |-> x.Q[r][year]], year)
       /\ ets_balance_rule(m, [r \in m.routes |-> x.Q[r][year]], year, x.ETSpos[year])
       /\ NonNegativeReals(x.ETSpos[year])
       /\ \A route \in m.routes :
             /\ NonNegativeReals(x.Q[route][year])
             /\ NonNegativeReals(x.K[route][year])
             /\ NonNegativeIntegers(x.Build[route][year])
             /\ capacity_rule(m, route, year, x.K[route][year],
                              IF year = MinOf(ToSet(m.years)) THEN 0
                              ELSE x.K[route][PrevYear(m, year)],
                              x.Build[route][year])
             /\ utilization_rule(m, route, year, x.Q[route][year], x.K[route][year])
             /\ (m.h2_routes # {} => h2_timing_rule(m, route, year, x.Build[route][year]))

(***************************************************************************)
(* Objective.                                                              *)
(***************************************************************************)
\* usd_per_t of objective_rule, in 0.1 USD/t
usd_per_t(m, route, year) ==
      m.intensity["iron_ore_t"][route] * PriceUSD(m.price_fn, "iron_ore_USD_per_t", year)
    + m.intensity["coking_coal_t"][route] * PriceUSD(m.price_fn, "coking_coal_USD_per_t", year)
    + m.scrap_int[route] * PriceUSD(m.price_fn, "scrap_USD_per_t", year)
    + m.intensity["ng_GJ"][route] * PriceUSD(m.price_fn, "ng_USD_per_GJ", year)
    + m.intensity["electricity_MWh"][route] * PriceUSD(m.price_fn, "electricity_USD_per_MWh", year)
    + m.intensity["h2_kg"][route] * PriceUSD(m.price_fn, HydrogenCommodity(m.hydrogen_case), year)
    + m.intensity["fluxes_t"][route] * PriceUSD(m.price_fn, "fluxes_USD_per_t", year)
    + m.intensity["alloys_USD"][route]

\* The largest exponent y - t0 of the horizon.
Span(m) == MaxOf({y - m.t0 : y \in ToSet(m.years)})

\* discount_factors[y] = 1 / (1 + discount_rate) ** (y - t0), times the
\* common denominator (num + den) ** Span(m), for discount_rate = num / den.
discount_factor(m, year) ==
    LET num == m.discount_rate[1]
        den == m.discount_rate[2]
    IN  Pow(den, year - m.t0) * Pow(num + den, Span(m) - (year - m.t0))

\* ets_t left out of the objective.
ets_t_dropped(m, year, Ey) == 0

\* ets_t = carbon_price[year] * ETSpos[year] * 1e6, in money units
ets_t(m, year, Ey) == m.carbon_price[year] * Ey

\* year_cost without the ETS term.
year_cost_no_ets(m, x, year) ==
      10 * SumF([route \in m.routes |->
                   x.Build[route][year] * m.unit_capacity[route] * m.capex[route]])
    + 10 * SumF([route \in m.routes |-> x.K[route][year] * m.fixed_opex[route]])
    + SumF([route \in m.routes |-> x.Q[route][year] * usd_per_t(m, route, year)])

\* capex_t + fixom_t + var_t + ets_t of one year, times 10 (var_t carries the
\* intensities' tenths).
year_cost(m, x, year) ==
      10 * SumF([route \in m.routes |->
                   x.Build[route][year] * m.unit_capacity[route] * m.capex[route]])
    + 10 * SumF([route \in m.routes |-> x.K[route][year] * m.fixed_opex[route]])
    + SumF([route \in m.routes |-> x.Q[route][year] * usd_per_t(m, route, year)])
    + 10 * ets_t(m, year, x.ETSpos[year])

\* total_cost of objective_rule, in the fixed-point unit 10 * (num + den) **
\* Span(m); the factor OBJ_SCALE of the returned expression is applied in
\* objective(m, x).  Both factors are positive, so the minimisers of this
\* total are those of the source's objective.
objective_rule(m, x) ==
    SumF([year \in ToSet(m.years) |-> discount_factor(m, year) * year_cost(m, x, year)])

(***************************************************************************)
(* The external solver.  The continuous variables are sampled: Q at whole  *)
(* Mt, K at every mass unit, ETSpos at 0, at the emissions gap and         *)
(* MaxSlack MtCO2 to either side of it.                                    *)
(***************************************************************************)
QGrid == {10 * n : n \in 0..MaxQ}
KGrid == 0..MaxK
BuildGrid == 0..MaxBuild

ETSGrid(m, Qy, year) ==
    LET gap == (scope1(m, Qy) - 1000 * m.free_alloc[year]) \div 1000
    IN  {0, gap - 10 * MaxSlack, gap, gap + 10 * MaxSlack}

\* The sampled values of one year's variables that satisfy that year's
\* domains and constraints, given last year's capacities.
YearPoints(m, year, Kprev) ==
    LET Bs == {b \in [m.routes -> BuildGrid] :
                  \A r \in m.routes :
                     /\ NonNegativeIntegers(b[r])
                     /\ (m.h2_routes # {} => h2_timing_rule(m, r, year, b[r]))}
        Ks(b) == Prod([r \in m.routes |->
                         {k \in KGrid : /\ NonNegativeReals(k)
                                        /\ capacity_rule(m, r, year, k, Kprev[r], b[r])}])
        Qs(k) == {q \in [m.routes -> QGrid] :
                     /\ demand_rule(m, q, year)
                     /\ scrap_limit_rule(m, q, year)
                     /\ \A r \in m.routes :
                           /\ NonNegativeReals(q[r])
                           /\ utilization_rule(m, r, year, q[r], k[r])}
        Es(q) == {e \in ETSGrid(m, q, year) :
                     NonNegativeReals(e) /\ ets_balance_rule(m, q, year, e)}
    IN  UNION {UNION {UNION {{[Build |-> b, K |-> k, Q |-> q, ETSpos |-> e] :
                                e \in Es(q)} :
                             q \in Qs(k)} :
                      k \in Ks(b)} :
               b \in Bs}

\* Sequences of year points for the years from position i on.
RECURSIVE Paths(_, _, _)
Paths(m, i, Kprev) ==
    IF i > Len(m.years) THEN {<<>>}
    ELSE UNION {{<<pt>> \o rest : rest \in Paths(m, i + 1, pt.K)} :
                pt \in YearPoints(m, m.years[i], Kprev)}

YearIndex(m, year) == CHOOSE i \in DOMAIN m.years : m.years[i] = year

\* The variable values Q[r,y], K[r,y], Build[r,y], ETSpos[y] of a path.
PointOf(m, path) ==
    [Q      |-> [r \in m.routes |-> [y \in ToSet(m.years) |-> path[YearIndex(m, y)].Q[r]]],
     K      |-> [r \in m.routes |-> [y \in ToSet(m.years) |-> path[YearIndex(m, y)].K[r]]],
     Build  |-> [r \in m.routes |-> [y \in ToSet(m.years) |-> path[YearIndex(m, y)].Build[r]]],
     ETSpos |-> [y \in ToSet(m.years) |-> path[YearIndex(m, y)].ETSpos]]

\* The sampled points of the model's feasible region.
FeasiblePoints(m) ==
    {x \in {PointOf(m, path) : path \in Paths(m, 1, [r \in m.routes |-> 0])} :
        Feasible(m, x)}

\* ETSpos is unbounded above, so the objective is unbounded below when a
\* year's ETS coefficient is negative (and the model is feasible).
UnboundedBelow(m) ==
    \E year \in ToSet(m.years) : discount_factor(m, year) * m.carbon_price[year] < 0

(***************************************************************************)
(* solve_model and extract_solution                                        *)
(***************************************************************************)
\* A value that is not there yet (Python: the name is unbound, or None).
None == [none |-> TRUE]

\* float('inf')
Inf == [finite |-> FALSE]

\* OBJ_SCALE = 1e-9
OBJ_SCALE == [num |-> 1, den |-> 1000000000]

\* pyo.value(model.objective): objective_rule returns total_cost * OBJ_SCALE
objective(m, x) == RatTimes(Rat(objective_rule(m, x), 1), OBJ_SCALE)

\* solve_model that returns the model's scaled objective as it is.
solve_obj_val_scaled(m, tc, x) ==
    IF tc = "optimal" THEN [finite |-> TRUE, value |-> objective(m, x)] ELSE Inf

\* obj_val of solve_model: pyo.value(model.objective) / OBJ_SCALE when the
\* termination condition is optimal (in the unit of objective_rule's
\* total_cost); else inf.
solve_obj_val(m, tc, x) ==
    IF tc = "optimal"
    THEN [finite |-> TRUE, value |-> RatDiv(objective(m, x), OBJ_SCALE)]
    ELSE Inf

\* extract_solution that charges the price on all emissions, free or not.
extract_solution_gross(m, x) ==
    [production |-> [r \in m.routes |-> [y \in ToSet(m.years) |-> x.Q[r][y]]],
     capacity   |-> [r \in m.routes |-> [y \in ToSet(m.years) |-> x.K[r][y]]],
     builds     |-> [r \in m.routes |-> [y \in ToSet(m.years) |-> x.Build[r][y]]],
     emissions  |-> [y \in ToSet(m.years) |->
                       SumF([r \in m.routes |-> x.Q[r][y] * m.ef_net[r]])],
     ets_cost   |-> [y \in ToSet(m.years) |->
                       (SumF([r \in m.routes |-> x.Q[r][y] * m.ef_net[r]]) \div 1000)
                           * m.carbon_price[y]]]

\* model.ETSpos[y] * 1e6 * model.carbon_price[y], in money units
extract_solution(m, x) ==
    [production |-> [r \in m.routes |-> [y \in ToSet(m.years) |-> x.Q[r][y]]],
     capacity   |-> [r \in m.routes |-> [y \in ToSet(m.years) |-> x.K[r][y]]],
     builds     |-> [r \in m.routes |-> [y \in ToSet(m.years) |-> x.Build[r][y]]],
     emissions  |-> [y \in ToSet(m.years) |->
                       SumF([r \in m.routes |-> x.Q[r][y] * m.ef_net[r]])],
     ets_cost   |-> [y \in ToSet(m.years) |-> x.ETSpos[y] * m.carbon_price[y]]]

(***************************************************************************)
(* validate_solution (sanity.py).  tolerance = 1e-6; on the model's        *)
(* fixed-point values a difference is either 0 or far above it.            *)
(***************************************************************************)
\* Check 1: abs(total_prod - demand) > tolerance
DemandCheckRaises(s, p) ==
    \E year \in ToSet(p.years) :
        SumF([r \in p.routes |-> s.production[r][year]]) # p.demand[year]

\* Check 2: a production, capacity or build below -tolerance
NegativeCheckRaises(s, p) ==
    \E route \in p.routes, year \in ToSet(p.years) :
        \/ s.production[route][year] < 0
        \/ s.capacity[route][year] < 0
        \/ s.builds[route][year] < 0

\* Check 3 with the limit written in the code: utilization_limit = 0.90, and
\* prod / capacity > utilization_limit + tolerance wherever capacity >
\* tolerance.
UtilizationCheckRaises(s, p) ==
    \E route \in p.routes, year \in ToSet(p.years) :
        /\ s.capacity[route][year] > 0
        /\ 1000000 * s.production[route][year] > 900001 * s.capacity[route][year]

\* The check as it would be if a cost above the recomputed one were also an
\* error.
EtsCheckRaises_either_side(s, p) ==
    \E year \in ToSet(p.years) :
        LET gap == s.emissions[year] - 1000 * p.free_alloc[year]
            gp  == gap * p.carbon_price[year]
        IN  IF gap <= 0
            THEN s.ets_cost[year] > p.carbon_price[year] \div 100000
            ELSE Abs(gp - 1000 * s.ets_cost[year]) > gp \div 1000000

\* Check 4: ETS cost charged although emissions are within the free
\* allocation, or a cost below (scope1 - free) * price * 1e6 * (1 - tolerance).
\* (emissions are in 100 tCO2, free_alloc in 0.1 MtCO2, ets_cost in 1e5 USD.)
EtsCheckRaises(s, p) ==
    \E year \in ToSet(p.years) :
        LET gap == s.emissions[year] - 1000 * p.free_alloc[year]
            gp  == gap * p.carbon_price[year]
        IN  IF gap <= 0
            THEN s.ets_cost[year] > p.carbon_price[year] \div 100000
            ELSE gp - 1000 * s.ets_cost[year] > gp \div 1000000

\* Check 4, the count ets_mismatches: the years whose reported cost differs
\* from max(0, scope1 - free) * 1e6 * price by a relative error, taken
\* against max(ets_cost_calc, 1e-6), above the tolerance.  These are logged
\* as warnings.
EtsMismatches(s, p) ==
    Cardinality({year \in ToSet(p.years) :
        LET gap  == s.emissions[year] - 1000 * p.free_alloc[year]
            calc == (IF gap > 0 THEN gap ELSE 0) * p.carbon_price[year]
            d    == Abs(1000 * s.ets_cost[year] - calc)
        IN  IF calc > 0 THEN d > calc \div 1000000 ELSE d > 0})

\* TRUE when validate_solution(solution, params, model) raises ValueError.
ValidateRaises(s, p) ==
    \/ DemandCheckRaises(s, p)
    \/ NegativeCheckRaises(s, p)
    \/ UtilizationCheckRaises(s, p)
    \/ EtsCheckRaises(s, p)

\* print_solution_summary: (total_last / total_first) - 1 divides by the
\* first year's total production.
SummaryRaises(s, p) ==
    SumF([r \in p.routes |-> s.production[r][MinOf(ToSet(p.years))]]) = 0

(***************************************************************************)
(* The state machine: run_single_scenario (driver "scenario"),             *)
(* multi_scenario.run_scenario under main's loop (driver "multi") and      *)
(* test_carbon_price_response (driver "test").                             *)
(***************************************************************************)
Init ==
    /\ pc = "start"
    /\ driver = "none"
    /\ params = None
    /\ knobs = None
    /\ model = None
    /\ term = "none"
    /\ sol = None
    /\ obj_val = None
    /\ solution = None
    /\ validation = "none"
    /\ exported = FALSE
    /\ result = None
    /\ low = None
    /\ bpc = "start"
    /\ entry = "none"
    /\ args = None
    /\ requested = <<>>
    /\ attempted = <<>>
    /\ scenario_results = <<>>
    /\ successful_scenarios = <<>>
    /\ all_solutions = <<>>
    /\ results = <<>>
    /\ returned = None
    /\ exit_code = None
    /\ probe = None

\* run_single_scenario: load_parameters, which raises or returns a bundle
\* that passed _validate_parameters.
LoadParameters ==
    /\ pc = "start"
    /\ \E wb \in Workbooks, k \in KnobSets :
          /\ driver' = "scenario"
          /\ knobs' = k
          /\ IF ValidateParameters(wb)
             THEN /\ params' = wb
                  /\ pc' = "loaded"
                  /\ result' = result
             ELSE /\ params' = params
                  /\ pc' = "returned"
                  /\ result' = [status |-> "PARAMETER_ERROR"]
    /\ UNCHANGED batchVars
    /\ UNCHANGED probe
    /\ UNCHANGED <<model, term, sol, obj_val, solution, validation, exported, low>>

\* multi_scenario.run_scenario: io.load_parameters; build_model is called
\* with (params, discount, util), so the capture rate is its default 0.80.
\* An exception leaves run_scenario and is caught by main's loop.
MultiLoadParameters ==
    /\ pc = "start"
    /\ \E wb \in MultiWorkbooks, util \in {90, 100} :
          /\ driver' = "multi"
          /\ knobs' = [discount_rate |-> <<1, 20>>, utilization |-> util,
                       ccus_capture_rate |-> 80]
          /\ IF ValidateParameters(wb)
             THEN /\ params' = wb
                  /\ pc' = "loaded"
                  /\ result' = result
             ELSE /\ params' = params
                  /\ pc' = "returned"
                  /\ result' = [status |-> "EXCEPTION"]
    /\ UNCHANGED batchVars
    /\ UNCHANGED probe
    /\ UNCHANGED <<model, term, sol, obj_val, solution, validation, exported, low>>

\* test_carbon_price_response: create_toy_parameters() and case 1's prices;
\* build_model(params, discount_rate=0.0, utilization=1.0).
TestStart ==
    /\ pc = "start"
    /\ \E toy \in {ToyParameters, ToyParametersWithSupply, ToyParametersCompleted} :
          params' = [toy EXCEPT !.carbon_price = (2025 :> 0) @@ (2026 :> 0)]
    /\ driver' = "test"
    /\ knobs' = [discount_rate |-> <<0, 1>>, utilization |-> 100, ccus_capture_rate |-> 80]
    /\ pc' = "loaded"
    /\ UNCHANGED batchVars
    /\ UNCHANGED probe
    /\ UNCHANGED <<model, term, sol, obj_val, solution, validation, exported, result, low>>

\* build_model as it would be if it consumed the bundle's price table while
\* reading it.
BuildModel_clears_prices ==
    /\ pc = "loaded"
    /\ ~BuildRaises(params)
    /\ model' = build_model(params, knobs)
    /\ params' = [params EXCEPT !.carbon_price = [y \in DOMAIN @ |-> 0]]
    /\ term' = "none"
    /\ sol' = None
    /\ obj_val' = None
    /\ pc' = "built"
    /\ UNCHANGED batchVars
    /\ UNCHANGED probe
    /\ UNCHANGED <<driver, knobs, solution, validation, exported, result, low>>

\* build_model(params, ...): a fresh model, whose variables hold no values
\* yet, or an exception.
BuildModel ==
    /\ pc = "loaded"
    /\ IF BuildRaises(params)
       THEN /\ UNCHANGED <<model, term, sol, obj_val>>
            /\ CASE driver = "scenario" ->
                      pc' = "returned" /\ result' = [status |-> "MODEL_ERROR"]
                 [] driver = "multi" ->
                      pc' = "returned" /\ result' = [status |-> "EXCEPTION"]
                 [] driver = "test" ->
                      pc' = "test_error" /\ result' = result
       ELSE /\ model' = build_model(params, knobs)
            /\ term' = "none"
            /\ sol' = None
            /\ obj_val' = None
            /\ pc' = "built"
            /\ result' = result
    /\ UNCHANGED batchVars
    /\ UNCHANGED probe
    /\ UNCHANGED <<driver, params, knobs, solution, validation, exported, low>>

\* opt.solve(model): the solver ends with a termination condition and, when
\* it found one, a point of the feasible region loaded into the model.  It
\* reports optimal only for a minimiser of the objective; it may also stop at
\* any feasible point without the proof of optimality.
OutcomesScored(scored, best) ==
    {[term |-> "feasible", sol |-> s[2]] : s \in scored}
    \cup {[term |-> "optimal", sol |-> s[2]] : s \in {t \in scored : t[1] = best}}

OutcomesOf(m, scored) ==
    IF scored = {} THEN {[term |-> "infeasible", sol |-> None]}
    ELSE IF UnboundedBelow(m) THEN {[term |-> "unbounded", sol |-> None]}
    ELSE OutcomesScored(scored, MinOf({s[1] : s \in scored}))

SolverOutcomes(m) ==
    OutcomesOf(m, {<<objective_rule(m, x), x>> : x \in FeasiblePoints(m)})

\* solve_model(model, solver), and the test's opt.solve(model)
SolveModel ==
    /\ pc = "built"
    /\ \E o \in SolverOutcomes(model) :
          /\ term' = o.term
          /\ sol' = o.sol
          /\ obj_val' = solve_obj_val(model, o.term, o.sol)
    /\ pc' = "solved"
    /\ UNCHANGED batchVars
    /\ UNCHANGED probe
    /\ UNCHANGED <<driver, params, knobs, model, solution, validation, exported,
                   result, low>>

\* The status test as it would be if any status with a loaded point passed.
CheckStatus_accepts_feasible ==
    /\ pc = "solved"
    /\ driver \in {"scenario", "multi"}
    /\ IF term \notin {"optimal", "feasible"}
       THEN /\ pc' = "returned"
            /\ result' = IF driver = "scenario" THEN [status |-> term]
                         ELSE [status |-> "SKIPPED"]
       ELSE pc' = "accepted" /\ result' = result
    /\ UNCHANGED batchVars
    /\ UNCHANGED probe
    /\ UNCHANGED <<driver, params, knobs, model, term, sol, obj_val, solution,
                   validation, exported, low>>

\* The status test as it would be with a retry: an infeasible model is
\* handed to the solver again.
CheckStatus_retries ==
    /\ pc = "solved"
    /\ driver \in {"scenario", "multi"}
    /\ IF term = "infeasible"
       THEN pc' = "built" /\ result' = result
       ELSE IF term # "optimal"
       THEN /\ pc' = "returned"
            /\ result' = IF driver = "scenario" THEN [status |-> term]
                         ELSE [status |-> "SKIPPED"]
       ELSE pc' = "accepted" /\ result' = result
    /\ UNCHANGED batchVars
    /\ UNCHANGED probe
    /\ UNCHANGED <<driver, params, knobs, model, term, sol, obj_val, solution,
                   validation, exported, low>>

\* run_single_scenario: if solver_status != 'optimal': return the failure.
\* run_scenario: if status != 'optimal': return None, None, which main skips.
CheckStatus ==
    /\ pc = "solved"
    /\ driver \in {"scenario", "multi"}
    /\ IF term # "optimal"
       THEN /\ pc' = "returned"
            /\ result' = IF driver = "scenario" THEN [status |-> term]
                         ELSE [status |-> "SKIPPED"]
       ELSE pc' = "accepted" /\ result' = result
    /\ UNCHANGED batchVars
    /\ UNCHANGED probe
    /\ UNCHANGED <<driver, params, knobs, model, term, sol, obj_val, solution,
                   validation, exported, low>>

\* solution = extract_solution(model, params)
ExtractSolution ==
    /\ pc = "accepted"
    /\ solution' = extract_solution(model, sol)
    /\ pc' = "extracted"
    /\ UNCHANGED batchVars
    /\ UNCHANGED probe
    /\ UNCHANGED <<driver, params, knobs, model, term, sol, obj_val, validation,
                   exported, result, low>>

\* run_single_scenario: validate_solution and print_solution_summary inside
\* try/except, which only warns.  run_scenario: sanity.validate_solution with
\* no handler, so a ValueError leaves run_scenario and main's loop catches it.
ValidateSolution ==
    /\ pc = "extracted"
    /\ IF driver = "scenario"
       THEN /\ validation' = IF ValidateRaises(solution, params)
                                \/ SummaryRaises(solution, params)
                             THEN "failed" ELSE "passed"
            /\ pc' = "validated"
            /\ result' = result
       ELSE IF ValidateRaises(solution, params)
            THEN /\ validation' = "failed"
                 /\ pc' = "returned"
                 /\ result' = [status |-> "EXCEPTION"]
            ELSE /\ validation' = "passed"
                 /\ pc' = "validated"
                 /\ result' = result
    /\ UNCHANGED batchVars
    /\ UNCHANGED probe
    /\ UNCHANGED <<driver, params, knobs, model, term, sol, obj_val, solution,
                   exported, low>>

\* export_time_series and the summary JSON (the file system is taken to
\* accept the writes).
ExportResults ==
    /\ pc = "validated"
    /\ exported' = TRUE
    /\ pc' = "exported"
    /\ UNCHANGED batchVars
    /\ UNCHANGED probe
    /\ UNCHANGED <<driver, params, knobs, model, term, sol, obj_val, solution,
                   validation, result, low>>

\* run_single_scenario: the SUCCESS result.  run_scenario: return solution,
\* params, which main collects into all_solutions.
ReturnSuccess ==
    /\ pc = "exported"
    /\ result' = IF driver = "scenario"
                 THEN [status          |-> "SUCCESS",
                       solver_status   |-> term,
                       objective_value |-> obj_val,
                       solution        |-> solution]
                 ELSE [status   |-> "COLLECTED",
                       solution |-> solution]
    /\ pc' = "returned"
    /\ UNCHANGED batchVars
    /\ UNCHANGED probe
    /\ UNCHANGED <<driver, params, knobs, model, term, sol, obj_val, solution,
                   validation, exported, low>>

\* test_carbon_price_response: read case 1's 2026 production, set case 2's
\* prices.  pyo.value of a variable with no loaded value raises.
TestReadLow ==
    /\ pc = "solved"
    /\ driver = "test"
    /\ low = None
    /\ IF sol = None
       THEN pc' = "test_error" /\ low' = low /\ params' = params
       ELSE /\ low' = [bf_prod |-> sol.Q["BF-BOF"][2026],
                       h2_prod |-> sol.Q["H2-DRI"][2026],
                       term    |-> term]
            /\ params' = [params EXCEPT !.carbon_price = (2025 :> 1000) @@ (2026 :> 1000)]
            /\ pc' = "loaded"
    /\ UNCHANGED batchVars
    /\ UNCHANGED probe
    /\ UNCHANGED <<driver, knobs, model, term, sol, obj_val, solution, validation,
                   exported, result>>

\* test_carbon_price_response: read case 2's 2026 production and assert.
TestAssert ==
    /\ pc = "solved"
    /\ driver = "test"
    /\ low # None
    /\ IF sol = None
       THEN pc' = "test_error"
       ELSE IF /\ sol.Q["H2-DRI"][2026] > low.h2_prod
               /\ sol.Q["BF-BOF"][2026] < low.bf_prod
            THEN pc' = "test_passed"
            ELSE pc' = "test_failed"
    /\ UNCHANGED batchVars
    /\ UNCHANGED probe
    /\ UNCHANGED <<driver, params, knobs, model, term, sol, obj_val, solution,
                   validation, exported, result, low>>

Next ==
    \/ LoadParameters
    \/ MultiLoadParameters
    \/ TestStart
    \/ BuildModel
    \/ SolveModel
    \/ CheckStatus
    \/ ExtractSolution
    \/ ValidateSolution
    \/ ExportResults
    \/ ReturnSuccess
    \/ TestReadLow
    \/ TestAssert

Spec == Init /\ [][Next]_vars

(***************************************************************************)
(* The batch entry points: run_all_scenarios under run_multi_scenario_cli  *)
(* and scenarios.main, the loop of multi_scenario.main and the loop of     *)
(* run_ngfs_updated.main.  One step of a loop is one whole call of the     *)
(* per-scenario runner.                                                    *)
(***************************************************************************)
\* run_all_scenarios: scenarios = ['NGFS_NetZero2050', 'NGFS_Below2C', 'NGFS_NDCs']
scenarios == <<"NGFS_NetZero2050", "NGFS_Below2C", "NGFS_NDCs">>

\* The carbon_price sheet of a data file: the price columns of the scenarios
\* it has rows for.
CarbonSheets ==
    {[s \in ToSet(scenarios) |-> IF s = "NGFS_NDCs" THEN <<0, 50>> ELSE <<50, 50>>],
     [s \in {"NGFS_NetZero2050", "NGFS_NDCs"} |-> <<50, 50>>]}

\* The data files a batch is run on: with and without an incumbent route.
DataFiles ==
    {[routes |-> R, carbon_price |-> cs] :
        R \in {{"BF-BOF", "H2-DRI"}, {"H2-DRI", "HyREX"}}, cs \in CarbonSheets}

\* load_parameters(data_path, carbon_scenario): the rows of the scenario in
\* the carbon_price sheet; raises when there are none.
load_parameters(file, carbon_scenario) ==
    LoadedBundle(file.routes, <<2025, 2026>>, <<20, 20>>,
                 file.carbon_price[carbon_scenario], <<0, 0>>, <<0, 0>>, 40, 1)

LoadRaises(file, carbon_scenario) ==
    \/ carbon_scenario \notin DOMAIN file.carbon_price
    \/ ~ValidateParameters(load_parameters(file, carbon_scenario))

\* What the file system does to one scenario run: it accepts everything, it
\* refuses output_path.mkdir, or it refuses the writes of the export.
FileSystem == {"ok", "mkdir_fails", "write_fails"}

\* The command lines' defaults: --discount 0.05 --util 0.90 and a capture
\* rate of 0.80, and a run at full utilization.
BatchKnobs ==
    {[discount_rate |-> <<1, 20>>, utilization |-> 90,  ccus_capture_rate |-> 80],
     [discount_rate |-> <<1, 20>>, utilization |-> 100, ccus_capture_rate |-> 80]}

\* An exception that leaves the call.
Raised == [raised |-> TRUE]

\* run_single_scenario after a solve that ended with outcome o.
SingleResult(carbon_scenario, p, m, o, fs) ==
    IF o.term # "optimal"
    THEN [scenario |-> carbon_scenario, status |-> o.term]
    ELSE IF fs = "write_fails"
    THEN [scenario |-> carbon_scenario, status |-> "EXPORT_ERROR"]
    ELSE [scenario        |-> carbon_scenario,
          status          |-> "SUCCESS",
          solver_status   |-> o.term,
          objective_value |-> solve_obj_val(m, o.term, o.sol),
          solution        |-> extract_solution(m, o.sol)]

SingleResults(carbon_scenario, p, m, outcomes, fs) ==
    {SingleResult(carbon_scenario, p, m, o, fs) : o \in outcomes}

SingleSolved(carbon_scenario, p, m, fs) ==
    SingleResults(carbon_scenario, p, m, SolverOutcomes(m), fs)

\* run_single_scenario(data_path, carbon_scenario, ...): the results it can
\* return, or the exception of the mkdir that precedes its first try.
run_single_scenario(file, carbon_scenario, k, fs) ==
    IF fs = "mkdir_fails" THEN {Raised}
    ELSE IF LoadRaises(file, carbon_scenario)
    THEN {[scenario |-> carbon_scenario, status |-> "PARAMETER_ERROR"]}
    ELSE IF BuildRaises(load_parameters(file, carbon_scenario))
    THEN {[scenario |-> carbon_scenario, status |-> "MODEL_ERROR"]}
    ELSE SingleSolved(carbon_scenario, load_parameters(file, carbon_scenario),
                      build_model(load_parameters(file, carbon_scenario), k), fs)

\* multi_scenario.run_scenario after a solve that ended with outcome o:
\* None, None for a status other than optimal; validate_solution and the
\* exports have no handler.
MultiResult(p, m, o, fs) ==
    IF o.term # "optimal" THEN None
    ELSE IF ValidateRaises(extract_solution(m, o.sol), p) THEN Raised
    ELSE IF fs = "write_fails" THEN Raised
    ELSE [solution |-> extract_solution(m, o.sol), params |-> p]

MultiResults(p, m, outcomes, fs) == {MultiResult(p, m, o, fs) : o \in outcomes}

MultiSolved(p, m, fs) == MultiResults(p, m, SolverOutcomes(m), fs)

\* multi_scenario.run_scenario(params_file, scenario, ...): build_model is
\* called with (params, discount, util).
run_scenario(file, scenario, k, fs) ==
    IF LoadRaises(file, scenario) THEN {Raised}
    ELSE IF BuildRaises(load_parameters(file, scenario)) THEN {Raised}
    ELSE MultiSolved(load_parameters(file, scenario),
                     build_model(load_parameters(file, scenario), k), fs)

\* run_ngfs_updated.run_scenario, the key results: 'production' in solution,
\* then solution['production'].loc[2050] on the dict extract_solution
\* returns, which has no attribute loc.
KeyResultsRaise(s) == "production" \in DOMAIN s

\* run_ngfs_updated.run_scenario after a solve that ended with outcome o
\* (validation only warns).
NgfsResult(m, o, fs) ==
    IF o.term # "optimal" THEN [success |-> FALSE]
    ELSE IF fs = "write_fails" THEN [success |-> FALSE]
    ELSE IF KeyResultsRaise(extract_solution(m, o.sol)) THEN [success |-> FALSE]
    ELSE [success |-> TRUE]

NgfsResults(m, outcomes, fs) == {NgfsResult(m, o, fs) : o \in outcomes}

NgfsSolved(m, fs) == NgfsResults(m, SolverOutcomes(m), fs)

\* run_ngfs_updated.run_scenario(data_file, scenario_name): the mkdir
\* precedes the try, whose handler returns False;
\* build_model(params, discount_rate=0.05, utilization=0.90).
ngfs_run_scenario(file, scenario_name, fs) ==
    IF fs = "mkdir_fails" THEN {Raised}
    ELSE IF LoadRaises(file, scenario_name) THEN {[success |-> FALSE]}
    ELSE IF BuildRaises(load_parameters(file, scenario_name)) THEN {[success |-> FALSE]}
    ELSE NgfsSolved(build_model(load_parameters(file, scenario_name),
                                [discount_rate |-> <<1, 20>>, utilization |-> 90,
                                 ccus_capture_rate |-> 80]), fs)

\* The keys of a scenario's solution that each consumer subscripts without a
\* default (solution.get('ets_positive', {}) and the guarded
\* 'objective_components' have one).
KeyReads(consumer) ==
    CASE consumer = "validate_solution" ->
            {"production", "capacity", "builds", "emissions", "ets_cost"}
      [] consumer = "print_solution_summary" -> {"production", "emissions", "ets_cost"}
      [] consumer = "export_time_series" -> {"production", "emissions", "ets_cost"}
      [] consumer = "create_summary" -> {"production", "emissions", "ets_cost"}
      [] consumer = "create_consolidated_outputs" -> {"production", "emissions", "ets_cost"}
      [] consumer = "create_scenario_comparison" ->
            {"scope1_emissions", "hotmetal_production", "eaf_production", "ets_cost"}
      [] consumer = "compare_scenarios_to_budget" -> {"emissions"}

\* A subscript of a key the dict does not have raises KeyError.
KeyError(consumer, s) == ~(KeyReads(consumer) \subseteq DOMAIN s)

\* create_scenario_comparison(scenario_results, output_dir): the metrics of
\* the SUCCESS results are read from result['solution']; the other results
\* are read with result['status'] and result.get.
ComparisonRaises(sr) ==
    \E s \in DOMAIN sr :
        /\ sr[s].status = "SUCCESS"
        /\ KeyError("create_scenario_comparison", sr[s].solution)

create_scenario_comparison(sr) ==
    [summary_metrics |-> [s \in DOMAIN sr |-> sr[s].status]]

\* run_multi_scenario_cli(args), and scenarios.main without --scenario:
\* the call run_all_scenarios(data_path=args.data, ...).
RunAllScenariosCall ==
    /\ bpc = "start"
    /\ \E e \in {"run_multi_scenario_cli", "scenarios_main"},
          f \in DataFiles, k \in BatchKnobs :
          /\ entry' = e
          /\ args' = [data |-> f, knobs |-> k]
    /\ requested' = scenarios
    /\ bpc' = "run_all_loop"
    /\ UNCHANGED runVars
    /\ UNCHANGED probe
    /\ UNCHANGED <<attempted, scenario_results, successful_scenarios, all_solutions,
                   results, returned, exit_code>>

\* run_all_scenarios, one pass of "for scenario in scenarios": the call of
\* run_single_scenario inside try/except Exception.
RunAllScenariosStep ==
    /\ bpc = "run_all_loop"
    /\ Len(attempted) < Len(requested)
    /\ \E fs \in FileSystem :
         \E r \in run_single_scenario(args.data, requested[Len(attempted) + 1],
                                      args.knobs, fs) :
            /\ scenario_results' =
                  scenario_results @@
                  (requested[Len(attempted) + 1] :>
                     IF r = Raised
                     THEN [scenario |-> requested[Len(attempted) + 1],
                           status   |-> "UNEXPECTED_ERROR"]
                     ELSE r)
            /\ successful_scenarios' =
                  IF r # Raised /\ r.status = "SUCCESS"
                  THEN Append(successful_scenarios, requested[Len(attempted) + 1])
                  ELSE successful_scenarios
    /\ attempted' = Append(attempted, requested[Len(attempted) + 1])
    /\ UNCHANGED runVars
    /\ UNCHANGED probe
    /\ UNCHANGED <<bpc, entry, args, requested, all_solutions, results, returned,
                   exit_code>>

\* run_all_scenarios after the loop: aggregate_results inside try/except,
\* create_scenario_comparison with no handler, then the return value (the
\* file system is taken to accept the report's writes).
RunAllScenariosReturn ==
    /\ bpc = "run_all_loop"
    /\ Len(attempted) = Len(requested)
    /\ returned' =
          IF ComparisonRaises(scenario_results) THEN Raised
          ELSE [run_summary |->
                   [total_scenarios      |-> Len(scenarios),
                    successful_scenarios |-> Len(successful_scenarios),
                    failed_scenarios     |-> Len(scenarios) - Len(successful_scenarios)],
                scenario_results  |-> scenario_results,
                comparison_report |-> create_scenario_comparison(scenario_results)]
    /\ bpc' = "run_all_done"
    /\ UNCHANGED runVars
    /\ UNCHANGED probe
    /\ UNCHANGED <<entry, args, requested, attempted, scenario_results,
                   successful_scenarios, all_solutions, results, exit_code>>

\* run_multi_scenario_cli and scenarios.main after the call:
\* return 0 if run_summary['successful_scenarios'] > 0 else 1, and
\* except Exception: return 1.
CliExit ==
    /\ bpc = "run_all_done"
    /\ exit_code' = IF returned = Raised THEN 1
                    ELSE IF returned.run_summary.successful_scenarios > 0 THEN 0
                    ELSE 1
    /\ bpc' = "exited"
    /\ UNCHANGED runVars
    /\ UNCHANGED probe
    /\ UNCHANGED <<entry, args, requested, attempted, scenario_results,
                   successful_scenarios, all_solutions, results, returned>>

\* scenarios.main with --scenario: one run_single_scenario inside the try,
\* a one-entry run_summary and the same exit rule.
ScenariosMainSingle ==
    /\ bpc = "start"
    /\ \E f \in DataFiles, k \in BatchKnobs, i \in 1..Len(scenarios), fs \in FileSystem :
         \E r \in run_single_scenario(f, scenarios[i], k, fs) :
            /\ args' = [data |-> f, knobs |-> k, scenario |-> scenarios[i]]
            /\ requested' = <<scenarios[i]>>
            /\ attempted' = <<scenarios[i]>>
            /\ scenario_results' = IF r = Raised THEN scenario_results
                                   ELSE (scenarios[i] :> r)
            /\ exit_code' = IF r = Raised THEN 1
                            ELSE IF r.status = "SUCCESS" THEN 0 ELSE 1
    /\ entry' = "scenarios_main"
    /\ bpc' = "exited"
    /\ UNCHANGED runVars
    /\ UNCHANGED probe
    /\ UNCHANGED <<successful_scenarios, all_solutions, results, returned>>

\* multi_scenario.main: --scenarios, by default the three NGFS names.
MultiScenarioMainCall ==
    /\ bpc = "start"
    /\ \E f \in DataFiles, k \in BatchKnobs,
          req \in {scenarios, SubSeq(scenarios, 1, 2)} :
          /\ args' = [data |-> f, knobs |-> k]
          /\ requested' = req
    /\ entry' = "multi_scenario_main"
    /\ bpc' = "multi_loop"
    /\ UNCHANGED runVars
    /\ UNCHANGED probe
    /\ UNCHANGED <<attempted, scenario_results, successful_scenarios, all_solutions,
                   results, returned, exit_code>>

\* multi_scenario.main, one pass of "for scenario in args.scenarios":
\* run_scenario inside try/except Exception, whose handler continues.
MultiMainStep ==
    /\ bpc = "multi_loop"
    /\ Len(attempted) < Len(requested)
    /\ \E fs \in {"ok", "write_fails"} :
         \E r \in run_scenario(args.data, requested[Len(attempted) + 1],
                               args.knobs, fs) :
            all_solutions' =
               IF r = Raised \/ r = None THEN all_solutions
               ELSE all_solutions @@ (requested[Len(attempted) + 1] :> r.solution)
    /\ attempted' = Append(attempted, requested[Len(attempted) + 1])
    /\ UNCHANGED runVars
    /\ UNCHANGED probe
    /\ UNCHANGED <<bpc, entry, args, requested, scenario_results,
                   successful_scenarios, results, returned, exit_code>>

\* multi_scenario.main after the loop: sys.exit(1) when all_solutions is
\* empty; otherwise the analysis inside try/except and the end of main, so
\* the interpreter exits with 0.
MultiMainExit ==
    /\ bpc = "multi_loop"
    /\ Len(attempted) = Len(requested)
    /\ exit_code' = IF DOMAIN all_solutions = {} THEN 1 ELSE 0
    /\ bpc' = "exited"
    /\ UNCHANGED runVars
    /\ UNCHANGED probe
    /\ UNCHANGED <<entry, args, requested, attempted, scenario_results,
                   successful_scenarios, all_solutions, results, returned>>

\* run_ngfs_updated.main: the same three scenarios.
NgfsMainCall ==
    /\ bpc = "start"
    /\ \E f \in DataFiles : args' = [data |-> f]
    /\ requested' = scenarios
    /\ entry' = "run_ngfs_updated_main"
    /\ bpc' = "ngfs_loop"
    /\ UNCHANGED runVars
    /\ UNCHANGED probe
    /\ UNCHANGED <<attempted, scenario_results, successful_scenarios, all_solutions,
                   results, returned, exit_code>>

\* run_ngfs_updated.main, one pass of its loop: results[scenario_name] =
\* success, and break when not success.  An exception of run_scenario leaves
\* main, and the interpreter exits with 1.
NgfsMainStep ==
    /\ bpc = "ngfs_loop"
    /\ Len(attempted) < Len(requested)
    /\ \E fs \in FileSystem :
         \E r \in ngfs_run_scenario(args.data, requested[Len(attempted) + 1], fs) :
            IF r = Raised
            THEN /\ results' = results
                 /\ exit_code' = 1
                 /\ bpc' = "exited"
            ELSE /\ results' = results @@ (requested[Len(attempted) + 1] :> r.success)
                 /\ exit_code' = exit_code
                 /\ bpc' = IF r.success THEN "ngfs_loop" ELSE "ngfs_summary"
    /\ attempted' = Append(attempted, requested[Len(attempted) + 1])
    /\ UNCHANGED runVars
    /\ UNCHANGED probe
    /\ UNCHANGED <<entry, args, requested, scenario_results, successful_scenarios,
                   all_solutions, returned>>

\* run_ngfs_updated.main after the loop: return 0 if all(results.values())
\* else 1.
NgfsMainExit ==
    /\ \/ bpc = "ngfs_summary"
       \/ bpc = "ngfs_loop" /\ Len(attempted) = Len(requested)
    /\ exit_code' = IF \A s \in DOMAIN results : results[s] THEN 0 ELSE 1
    /\ bpc' = "exited"
    /\ UNCHANGED runVars
    /\ UNCHANGED probe
    /\ UNCHANGED <<entry, args, requested, attempted, scenario_results,
                   successful_scenarios, all_solutions, results, returned>>

NextBatch ==
    \/ RunAllScenariosCall
    \/ RunAllScenariosStep
    \/ RunAllScenariosReturn
    \/ CliExit
    \/ ScenariosMainSingle
    \/ MultiScenarioMainCall
    \/ MultiMainStep
    \/ MultiMainExit
    \/ NgfsMainCall
    \/ NgfsMainStep
    \/ NgfsMainExit

SpecBatch == Init /\ [][NextBatch]_vars

(***************************************************************************)
(* The pure functions of the validator and the loader, applied to inputs   *)
(* drawn from bounded sets.                                                *)
(***************************************************************************)
\* One year of a solution and a bundle for the ETS check: emissions in
\* 100 tCO2, free allocation in 0.1 MtCO2, price in USD/tCO2, reported cost
\* in 1e5 USD.
ProbeEmissions == {0, 2000, 998001, 1000001}
ProbeFreeAlloc == {0, 2}
ProbePrices == {0, 1, 20, 50}
ProbeEtsCosts == {0, 1, 2, 40, 99, 100, 101, 998, 999, 1000, 1001, 19999, 20000}

\* validate_solution's check 4 on one year.
ProbeEtsCheck ==
    /\ probe = None
    /\ \E e \in ProbeEmissions, fa \in ProbeFreeAlloc, cp \in ProbePrices,
          c \in ProbeEtsCosts :
          probe' = [fn             |-> "ets_check",
                    emissions      |-> e,
                    free_alloc     |-> fa,
                    carbon_price   |-> cp,
                    ets_cost       |-> c,
                    raises         |-> EtsCheckRaises(
                                          [emissions |-> (2025 :> e),
                                           ets_cost  |-> (2025 :> c)],
                                          [years        |-> <<2025>>,
                                           free_alloc   |-> (2025 :> fa),
                                           carbon_price |-> (2025 :> cp)]),
                    ets_mismatches |-> EtsMismatches(
                                          [emissions |-> (2025 :> e),
                                           ets_cost  |-> (2025 :> c)],
                                          [years        |-> <<2025>>,
                                           free_alloc   |-> (2025 :> fa),
                                           carbon_price |-> (2025 :> cp)])]
    /\ UNCHANGED <<runVars, batchVars>>

\* Price sheets handed to price_fn: one commodity with a rising series, one
\* with three recorded years (uneven gaps, a fall, a step not divisible by
\* the gap), one with a single recorded year.
ProbePriceData ==
    { [iron_ore_USD_per_t |-> (2025 :> 100 @@ 2030 :> 110)],
      [iron_ore_USD_per_t |-> (2025 :> 100 @@ 2028 :> 107 @@ 2030 :> 90)],
      [iron_ore_USD_per_t |-> (2026 :> 50)] }

ProbeCommodities == {"iron_ore_USD_per_t", "lithium_USD_per_t"}

ProbeYears == 2023..2032

\* price_fn(commodity, year) called on a price sheet.
ProbePriceFn ==
    /\ probe = None
    /\ \E data \in ProbePriceData, commodity \in ProbeCommodities,
          year \in ProbeYears :
          LET pf == [kind |-> "price_data", data |-> data]
          IN  probe' = [fn         |-> "price_fn",
                        price_data |-> data,
                        commodity  |-> commodity,
                        year       |-> year,
                        raises     |-> PriceFnRaises(pf, commodity),
                        value      |-> IF PriceFnRaises(pf, commodity)
                                       THEN None
                                       ELSE price_fn(pf, commodity, year)]
    /\ UNCHANGED <<runVars, batchVars>>

\* The points an optimal solve of the model can return.
OptimalPoints(m) ==
    {o.sol : o \in {o2 \in SolverOutcomes(m) : o2.term = "optimal"}}

\* The bundle with every year's carbon price multiplied by lambda.
ScalePrices(p, lambda) ==
    [p EXCEPT !.carbon_price = [y \in DOMAIN p.carbon_price |->
                                   lambda * p.carbon_price[y]]]

\* Bundles for the price response: the incumbent with its capture-equipped
\* variant, and with a hydrogen route past the cutoff, under low price paths.
ProbeBundles ==
    {LoadedBundle(routes, <<2030, 2031>>, <<20, 30>>, cp, <<0, 0>>, <<0, 0>>, 40, 1) :
        routes \in {{"BF-BOF", "BF-BOF+CCUS"}, {"BF-BOF", "H2-DRI"}},
        cp \in {<<1, 1>>, <<0, 2>>, <<5, 5>>}}

ProbeLambdas == {2, 10}

ProbeKnobs ==
    {[discount_rate |-> <<1, 20>>, utilization |-> 90, ccus_capture_rate |-> 80],
     [discount_rate |-> <<0, 1>>,  utilization |-> 100, ccus_capture_rate |-> 80]}

\* Two solves: the bundle as it is, and with every carbon price multiplied
\* by lambda; x and x_high are points the two optimal solves return.
ProbePriceResponse ==
    /\ probe = None
    /\ \E p \in ProbeBundles, lambda \in ProbeLambdas, k \in ProbeKnobs :
          \E x \in OptimalPoints(build_model(p, k)),
             x_high \in OptimalPoints(build_model(ScalePrices(p, lambda), k)) :
             probe' = [fn     |-> "price_response",
                       params |-> p,
                       knobs  |-> k,
                       lambda |-> lambda,
                       x      |-> x,
                       x_high |-> x_high]
    /\ UNCHANGED <<runVars, batchVars>>

NextProbe ==
    \/ ProbeEtsCheck
    \/ ProbePriceFn
    \/ ProbePriceResponse

SpecProbe == Init /\ [][NextProbe]_vars

(***************************************************************************)
(* Properties.                                                             *)
(***************************************************************************)
Max0(v) == IF v > 0 THEN v ELSE 0

\* A point of the feasible region is loaded (sol is kept for the rest of the
\* run).
HasPoint == sol # None

HorizonYears == ToSet(model.years)

\* Net emissions of year y at the loaded point, in 100 tCO2.
NetEmissions(y) == SumF([r \in model.routes |-> model.ef_net[r] * sol.Q[r][y]])

\* C1: at every point the solver can load (every point that satisfies the
\* constraints, optimal or not) and for every year of the horizon, the
\* production summed over the routes equals the bundle's demand of that year.
C1_DemandExact ==
    HasPoint =>
        \A y \in ToSet(params.years) :
            SumF([r \in params.routes |-> sol.Q[r][y]]) = params.demand[y]

\* An optimal point where two routes share a year's demand.
C1_Witness ==
    /\ HasPoint
    /\ term = "optimal"
    /\ \E y \in HorizonYears :
          /\ \A r \in model.routes : sol.Q[r][y] > 0
          /\ SumF([r \in model.routes |-> sol.Q[r][y]]) = model.demand[y]
          /\ model.demand[y] > 0

\* C2: for every extracted (optimal) solution and every year, the reported
\* ETS cost equals max(0, emissions - free_alloc) times the carbon price,
\* with emissions the sum of ef_net times production; it is not positive
\* when emissions <= free_alloc and not below the gap times the price
\* otherwise.  (Emissions are in 100 tCO2 and free_alloc in 0.1 MtCO2, hence
\* the factors 1000.)
C2_EtsCostIsPositivePart ==
    solution # None =>
        \A y \in HorizonYears :
            LET emissions == SumF([r \in model.routes |->
                                     model.ef_net[r] * solution.production[r][y]])
                free      == 1000 * model.free_alloc[y]
            IN  /\ solution.emissions[y] = emissions
                /\ 1000 * solution.ets_cost[y]
                      = Max0(emissions - free) * model.carbon_price[y]
                /\ emissions <= free => solution.ets_cost[y] <= 0
                /\ emissions > free =>
                      1000 * solution.ets_cost[y]
                          >= (emissions - free) * model.carbon_price[y]

\* An extracted solution that pays for a positive gap in one year.
C2_Witness ==
    /\ solution # None
    /\ \E y \in HorizonYears :
          /\ model.carbon_price[y] > 0
          /\ solution.emissions[y] > 1000 * model.free_alloc[y]
          /\ model.free_alloc[y] > 0
          /\ solution.ets_cost[y] > 0

\* C3 as stated: in every optimal solution and every year, whatever the
\* carbon prices, ETSpos equals max(0, net emissions - free_alloc).
C3_Original ==
    (HasPoint /\ term = "optimal") =>
        \A y \in HorizonYears :
            1000 * sol.ETSpos[y] = Max0(NetEmissions(y) - 1000 * model.free_alloc[y])

\* C3 amended: in every optimal solution, ETSpos equals max(0, net emissions
\* - free_alloc) in every year whose carbon price is positive; in a year
\* whose carbon price is zero ETSpos is at least that value and the ETS
\* cost is zero; and the ETS cost is zero in every year whose free
\* allocation is at least the net emissions.
C3_PositivePartWherePriced ==
    (HasPoint /\ term = "optimal") =>
        \A y \in HorizonYears :
            LET gap == Max0(NetEmissions(y) - 1000 * model.free_alloc[y])
            IN  /\ model.carbon_price[y] > 0 => 1000 * sol.ETSpos[y] = gap
                /\ model.carbon_price[y] = 0 =>
                      /\ 1000 * sol.ETSpos[y] >= gap
                      /\ sol.ETSpos[y] * model.carbon_price[y] = 0
                /\ gap = 0 => sol.ETSpos[y] * model.carbon_price[y] = 0

\* An optimal point with a priced year at a positive gap and a priced year
\* whose free allocation covers the emissions.
C3_Witness ==
    /\ HasPoint
    /\ term = "optimal"
    /\ \E y \in HorizonYears :
          /\ model.carbon_price[y] > 0
          /\ NetEmissions(y) > 1000 * model.free_alloc[y]
          /\ 1000 * sol.ETSpos[y] = NetEmissions(y) - 1000 * model.free_alloc[y]

\* The point x with ETSpos[y] replaced by e.
WithETSpos(x, y, e) == [x EXCEPT !.ETSpos[y] = e]

\* C4: at every feasible point the solver loads, and in every year, ETSpos
\* is at least the net emissions minus the free allocation, and at least 0;
\* it is bounded by an inequality (raising it keeps the point feasible) and
\* enters nothing but the objective, where its coefficient is
\* discount_factor * carbon_price (times 10, the objective's fixed-point
\* factor).
C4_EtsLowerBounds ==
    (pc = "solved" /\ HasPoint) =>
        \A y \in HorizonYears :
            /\ 1000 * sol.ETSpos[y] >= NetEmissions(y) - 1000 * model.free_alloc[y]
            /\ sol.ETSpos[y] >= 0
            /\ Feasible(model, WithETSpos(sol, y, sol.ETSpos[y] + 1))
            /\ objective_rule(model, WithETSpos(sol, y, sol.ETSpos[y] + 1))
                  - objective_rule(model, sol)
                  = 10 * discount_factor(model, y) * model.carbon_price[y]

\* A feasible point whose ETSpos lies strictly above the positive part.
C4_Witness ==
    /\ pc = "solved"
    /\ HasPoint
    /\ \E y \in HorizonYears :
          /\ NetEmissions(y) > 1000 * model.free_alloc[y]
          /\ 1000 * sol.ETSpos[y] > NetEmissions(y) - 1000 * model.free_alloc[y]

\* C5: on the toy instance, when both solves end optimal, the solve with
\* carbon price 1000 has strictly more H2-DRI and strictly less BF-BOF
\* production in 2026 than the solve with carbon price 0.
C5_ToyPriceResponse ==
    (/\ driver = "test"
     /\ pc \in {"test_passed", "test_failed"}
     /\ low.term = "optimal"
     /\ term = "optimal") =>
        /\ sol.Q["H2-DRI"][2026] > low.h2_prod
        /\ sol.Q["BF-BOF"][2026] < low.bf_prod

\* C6: at every feasible point of a model built from a bundle the loader
\* accepted, capacity never decreases from one horizon year to the next.
C6_CapacityMonotone ==
    (HasPoint /\ driver = "scenario") =>
        \A r \in model.routes :
            \A i \in 1..(Len(model.years) - 1) :
                sol.K[r][model.years[i + 1]] >= sol.K[r][model.years[i]]

\* C7: at every feasible point, production is at most the utilization passed
\* to build_model times capacity; so wherever there is capacity, production
\* over capacity is at most that utilization.
C7_UtilizationCeiling ==
    HasPoint =>
        \A r \in model.routes :
            \A y \in HorizonYears :
                /\ 100 * sol.Q[r][y] <= knobs.utilization * sol.K[r][y]
                /\ sol.K[r][y] > 0 =>
                      (100 * sol.Q[r][y]) \div sol.K[r][y] <= knobs.utilization

\* A feasible point, built with utilization 0.90, that produces on a route
\* up to the ceiling's last whole Mt.
C7_Witness ==
    /\ HasPoint
    /\ knobs.utilization = 90
    /\ \E r \in model.routes :
          \E y \in HorizonYears :
              /\ sol.Q[r][y] > 0
              /\ 100 * sol.Q[r][y] <= 90 * sol.K[r][y]
              /\ 100 * (sol.Q[r][y] + 10) > 90 * sol.K[r][y]

\* A route whose name flags it as not yet deployable.
Flagged(r) == Contains("H2", r) \/ Contains("HyREX", r)

\* The bundle's first-year endowment of route r, times 10.
Endowment10(m, r) ==
    IF Contains("BF-BOF", r) /\ ~Contains("CCUS", r)
    THEN 11 * m.demand[MinOf(ToSet(m.years))]
    ELSE 0

\* Route r can add capacity by year y: its units are positive and some year
\* up to y admits a build.
Expandable(m, r, y) ==
    /\ m.unit_capacity[r] > 0
    /\ \E y2 \in ToSet(m.years) : y2 <= y /\ ~(Flagged(r) /\ y2 < 2030)

\* Some year's demand exceeds utilization times capacity summed over the
\* routes at maximum build-out: no route can add capacity by that year and
\* the endowment falls short.
DemandExceedsBuildOut(m) ==
    \E y \in ToSet(m.years) :
        /\ \A r \in m.routes : ~Expandable(m, r, y)
        /\ 1000 * m.demand[y]
              > SumF([r \in m.routes |-> m.utilization * Endowment10(m, r)])

C9_NetEmissionFactor ==
    model # None =>
        \A r \in params.routes :
            LET c     == knobs.ccus_capture_rate
                gross == params.ef_scope1[r]
            IN  IF Contains("CCUS", r)
                THEN /\ 100 * model.ef_net[r] = 100 * gross * (100 - c)
                     /\ c = 0 => model.ef_net[r] = 100 * gross
                     /\ c = 80 => 5 * model.ef_net[r] = 100 * gross
                ELSE model.ef_net[r] = 100 * gross

\* A model built with capture rate 1 that has a capture-equipped route, whose
\* net factor is 0, next to a route that keeps its positive gross factor.
C9_Witness ==
    /\ model # None
    /\ knobs.ccus_capture_rate = 100
    /\ \E r1, r2 \in model.routes :
          /\ Contains("CCUS", r1)
          /\ params.ef_scope1[r1] > 0
          /\ model.ef_net[r1] = 0
          /\ ~Contains("CCUS", r2)
          /\ model.ef_net[r2] = 100 * params.ef_scope1[r2]
          /\ model.ef_net[r2] > 0

Incumbent(r) == Contains("BF-BOF", r) /\ ~Contains("CCUS", r)

\* C11: at every feasible point, in the first horizon year K[r,y0] is
\* unit_capacity[r] * Build[r,y0], plus 1.1 * demand[y0] for an incumbent
\* route only (never for a capture-equipped one); in every later year
\* K[r,y] is K[r,prev(y)] + unit_capacity[r] * Build[r,y], with no endowment.
C11_CapacityAccumulation ==
    HasPoint =>
        \A r \in params.routes :
            \A i \in 1..Len(params.years) :
                LET y     == params.years[i]
                    added == params.tech.unit_capacity[r] * sol.Build[r][y]
                IN  IF i = 1
                    THEN IF Incumbent(r)
                         THEN 10 * sol.K[r][y] = 11 * params.demand[y] + 10 * added
                         ELSE sol.K[r][y] = added
                    ELSE sol.K[r][y] = sol.K[r][params.years[i - 1]] + added

\* A feasible point with an endowed incumbent next to a capture-equipped
\* route that starts from its first-year build alone and builds again later.
C11_Witness ==
    /\ HasPoint
    /\ pc = "solved"
    /\ \E r1, r2 \in model.routes :
          LET y0 == model.years[1]
              y1 == model.years[2]
          IN  /\ Incumbent(r1)
              /\ 10 * sol.K[r1][y0] = 11 * model.demand[y0]
              /\ Contains("CCUS", r2)
              /\ sol.Build[r2][y0] = 1
              /\ sol.K[r2][y0] = model.unit_capacity[r2]
              /\ sol.Build[r2][y1] = 1
              /\ sol.K[r2][y1] = 2 * model.unit_capacity[r2]

\* C12: whenever build_model is called on a bundle that has every entry it
\* reads by key and whose price function knows every commodity, it returns a
\* model, whichever intensity tables or route entries the bundle lacks.
C12_MissingIntensitiesDefault ==
    (/\ params # None
     /\ RequiredKeys \subseteq DOMAIN params
     /\ pc \notin {"start", "loaded"}
     /\ \A c \in ObjectiveCommodities(params.options.hydrogen_case) :
           ~PriceFnRaises(params.price_fn, c)) =>
        model # None

\* C13: whatever termination condition the solver reports, the status
\* solve_model returns is one of 'optimal', 'infeasible', 'unbounded',
\* 'error'; the objective value it returns is a number only with 'optimal',
\* and run_single_scenario turns every other status into a failure result
\* without an objective value.
C13_StatusNormalized ==
    (driver = "scenario" /\ pc \in {"solved", "accepted", "extracted", "returned"}
        /\ term # "none") =>
        /\ term \in {"optimal", "infeasible", "unbounded", "error"}
        /\ obj_val.finite => term = "optimal"
        /\ (pc = "returned" /\ term # "optimal") =>
              "objective_value" \notin DOMAIN result

\* The claim's cost terms of year y at the loaded point, times 10.
CapexOf(y) ==
    SumF([r \in model.routes |->
            sol.Build[r][y] * model.unit_capacity[r] * model.capex[r]])

FixedOpexOf(y) == SumF([r \in model.routes |-> sol.K[r][y] * model.fixed_opex[r]])

VariableOpexOf(y) ==
    SumF([r \in model.routes |-> sol.Q[r][y] * usd_per_t(model, r, y)])

EtsCostOf(y) == model.carbon_price[y] * sol.ETSpos[y]

\* sum over years of discount_factor * (capex + fixed_opex + variable_opex +
\* ets_cost) at the loaded point
NPV ==
    SumF([y \in HorizonYears |->
            discount_factor(model, y)
              * (10 * CapexOf(y) + 10 * FixedOpexOf(y) + VariableOpexOf(y)
                   + 10 * EtsCostOf(y))])

\* C14: on an optimal solve the objective value solve_model returns, and
\* the one run_single_scenario reports, is the discounted sum of capex,
\* fixed opex, variable opex and ETS cost at the solved values, as a whole
\* number of cost units: no factor OBJ_SCALE is left in it.
C14_ObjectiveUnscaled ==
    (term = "optimal" /\ driver = "scenario") =>
        /\ obj_val = [finite |-> TRUE, value |-> [num |-> NPV, den |-> 1]]
        /\ (pc = "returned" /\ result.status = "SUCCESS") =>
              result.objective_value.value = [num |-> NPV, den |-> 1]

\* A successful scenario whose reported objective has a build, capacity,
\* production and an ETS liability behind it.
C14_Witness ==
    /\ pc = "returned"
    /\ result.status = "SUCCESS"
    /\ result.objective_value.value.num > 0
    /\ \E y \in HorizonYears :
          CapexOf(y) > 0 /\ FixedOpexOf(y) > 0 /\ VariableOpexOf(y) > 0 /\ EtsCostOf(y) > 0

\* The scrap intensity the bundle records for route r, 0 when it records
\* none.
RecordedScrap(r) ==
    IF "scrap_t" \in DOMAIN params.intensity
    THEN IF r \in DOMAIN params.intensity["scrap_t"]
         THEN params.intensity["scrap_t"][r]
         ELSE 0
    ELSE 0

\* C15: at every feasible point and in every year, scrap intensity times
\* production summed over the routes is at most the year's scrap supply,
\* where a route without a recorded scrap intensity counts 0 (intensities
\* are in tenths, hence the factor 10).
C15_ScrapLimit ==
    HasPoint =>
        \A y \in HorizonYears :
            SumF([r \in params.routes |-> RecordedScrap(r) * sol.Q[r][y]])
                <= 10 * params.scrap_supply[y]

\* A feasible point where the scrap-based route produces exactly what the
\* year's scrap supply allows, next to a route that uses no scrap.
C15_Witness ==
    /\ HasPoint
    /\ \E y \in HorizonYears :
          /\ params.scrap_supply[y] > 0
          /\ \E r \in params.routes : RecordedScrap(r) > 0 /\ sol.Q[r][y] > 0
          /\ \E r \in params.routes : RecordedScrap(r) = 0 /\ sol.Q[r][y] > 0
          /\ SumF([r \in params.routes |-> RecordedScrap(r) * sol.Q[r][y]])
                = 10 * params.scrap_supply[y]

\* A feasible point of a bundle that records no scrap intensity at all and
\* has no scrap supply.
C15_NoRecordReached ==
    /\ HasPoint
    /\ "scrap_t" \notin DOMAIN params.intensity
    /\ \E y \in HorizonYears :
          params.scrap_supply[y] = 0 /\ \E r \in params.routes : sol.Q[r][y] > 0

\* C16: in both runners, when the solve was optimal and validate_solution
\* raised, the run still ends with the solution exported and returned
\* (run_single_scenario) or collected (multi_scenario) as a success.
C16_ValidationFailureKeepsResults ==
    (/\ driver \in {"scenario", "multi"}
     /\ pc = "returned"
     /\ term = "optimal"
     /\ validation = "failed") =>
        /\ exported
        /\ result.status \in {"SUCCESS", "COLLECTED"}
        /\ "solution" \in DOMAIN result

\* C17: batch isolation.  Whenever the call of run_all_scenarios has ended,
\* whatever the three scenarios' outcomes were, every scenario of the list
\* was attempted in order, the call returned normally, its scenario_results
\* has one status entry per scenario, and successful_scenarios plus
\* failed_scenarios is total_scenarios.
C17_BatchIsolation ==
    (/\ entry \in {"run_multi_scenario_cli", "scenarios_main"}
     /\ requested = scenarios
     /\ bpc \in {"run_all_done", "exited"})
    => /\ attempted = scenarios
       /\ returned # Raised
       /\ DOMAIN returned.scenario_results = ToSet(scenarios)
       /\ \A s \in ToSet(scenarios) : "status" \in DOMAIN returned.scenario_results[s]
       /\ returned.run_summary.successful_scenarios
             + returned.run_summary.failed_scenarios
          = returned.run_summary.total_scenarios

\* The requested scenarios that reached 'optimal' and completed.
Completed ==
    IF entry = "multi_scenario_main" THEN DOMAIN all_solutions
    ELSE {s \in DOMAIN scenario_results : scenario_results[s].status = "SUCCESS"}

\* C18: CLI exit code.  A multi-scenario command line that exits with code 0
\* had every requested scenario reach 'optimal' and complete; with at least
\* one failed scenario the exit code is not 0.
C18_ExitCodeZeroOnlyOnFullSuccess ==
    (/\ bpc = "exited"
     /\ entry \in {"run_multi_scenario_cli", "scenarios_main", "multi_scenario_main"}
     /\ exit_code = 0)
    => ToSet(requested) \subseteq Completed

\* The downstream consumers of a scenario's solution.
Consumers ==
    {"validate_solution", "print_solution_summary", "export_time_series",
     "create_summary", "create_consolidated_outputs",
     "create_scenario_comparison", "compare_scenarios_to_budget"}

\* C19: the solution structure is the sole contract.  Every key a consumer
\* subscripts without a default is a key of the solution that
\* extract_solution returned, so no consumer meets a missing key.
C19_SolutionKeysContract ==
    solution # None => \A c \in Consumers : ~KeyError(c, solution)

\* C20: the parameter bundle is read-only to the core.  The steps that call
\* build_model, extract_solution and validate_solution (those taken from
\* "loaded", "accepted" and "extracted") leave params as it was, and every
\* model that has just been built, the second one of a reused bundle
\* included, is the model of the bundle's current contents and the knobs.
C20_ParamsReadOnly ==
    [][/\ pc \in {"loaded", "accepted", "extracted"} => params' = params
       /\ pc' = "built" => model' = build_model(params', knobs')]_vars

\* The caller has edited carbon_price after a first solve and the same
\* bundle has been built into a second model, which carries the new prices.
C20_Witness ==
    /\ driver = "test"
    /\ low # None
    /\ pc = "built"
    /\ params.carbon_price = (2025 :> 1000) @@ (2026 :> 1000)
    /\ model.carbon_price = params.carbon_price

\* C21: pipeline ordering.  In run_single_scenario and run_scenario the
\* export follows the validation, the validation follows the extraction,
\* the extraction follows a solve that ended 'optimal', the solve follows
\* the build and the build follows the load.  A result returned for a
\* non-optimal status or for an exception of loading, building or solving
\* has a status other than 'SUCCESS', no 'solution' and no
\* 'objective_value' entry, and no file was written.
C21_PipelineOrdering ==
    driver \in {"scenario", "multi"} =>
       /\ exported => validation # "none"
       /\ validation # "none" => solution # None
       /\ solution # None => term = "optimal" /\ sol # None
       /\ term # "none" => model # None
       /\ model # None => params # None
       /\ (pc = "returned" /\ term # "optimal") =>
             /\ result.status \notin {"SUCCESS", "COLLECTED"}
             /\ DOMAIN result \cap {"solution", "objective_value"} = {}
             /\ solution = None
             /\ ~exported

\* run_single_scenario has returned the failure of a solve that ended with
\* a status other than 'optimal'.
C21_Witness ==
    /\ driver = "scenario"
    /\ pc = "returned"
    /\ term \in {"infeasible", "feasible"}
    /\ result.status = term

\* C22: each scenario is solved at most once.  In run_single_scenario and
\* run_scenario a model is built only when there is none yet, the solver is
\* invoked only on a model that has no termination status yet, a solution
\* is extracted only when there is none yet, and the only step after a
\* solve that ended 'infeasible' or 'unbounded' is the return of that
\* status, with the model and its status left as they are.
C22_SolvedAtMostOnce ==
    [][driver' \in {"scenario", "multi"} =>
          /\ model' # model => model = None
          /\ pc' = "solved" => pc = "built" /\ term = "none"
          /\ term' # term => term = "none"
          /\ solution' # solution => solution = None
          /\ term \in {"infeasible", "unbounded"} =>
                /\ pc' = "returned"
                /\ model' = model
                /\ term' = term
                /\ sol' = sol]_vars

\* A runner has returned after its one solve ended 'infeasible'.
C22_Witness ==
    /\ driver \in {"scenario", "multi"}
    /\ pc = "returned"
    /\ term = "infeasible"
    /\ model # None
    /\ sol = None

\* The whole millionths of v, for v >= 0: the tolerance 1e-6 times v,
\* rounded down.
Millionths(v) == CHOOSE b \in 0..60 : b * 1000000 <= v /\ v < (b + 1) * 1000000

\* C23: validator ETS severity.  With gap = emissions - free_alloc and the
\* implied cost gap x price (both costs in units of 100 USD), the check
\* raises exactly when (gap <= tol and the reported cost is above
\* tol x price x 1e6) or (gap > tol and the reported cost is below the
\* implied cost x (1 - tol)); any other reported cost whose relative error
\* against max(0, gap) x price is above tol is counted as a mismatch and
\* does not raise.
C23_EtsSeverity ==
    (probe # None /\ probe.fn = "ets_check") =>
       LET gap      == probe.emissions - 1000 * probe.free_alloc
           implied  == gap * probe.carbon_price
           reported == 1000 * probe.ets_cost
           hard     == \/ gap <= 0 /\ 100000 * probe.ets_cost > probe.carbon_price
                       \/ /\ gap > 0
                          /\ IF implied >= 0
                             THEN reported + Millionths(implied) < implied
                             ELSE reported < implied
           recomputed == IF gap > 0 THEN implied ELSE 0
           diverges == IF recomputed > 0
                       THEN \/ reported + Millionths(recomputed) < recomputed
                            \/ reported > recomputed + Millionths(recomputed)
                       ELSE reported # recomputed
       IN  /\ probe.raises <=> hard
           /\ (diverges /\ ~hard) => (probe.ets_mismatches = 1 /\ ~probe.raises)
           /\ ~diverges => probe.ets_mismatches = 0

\* A reported cost far above the implied one, where the gap is positive:
\* counted as a mismatch, not raised.
C23_Witness ==
    /\ probe # None
    /\ probe.fn = "ets_check"
    /\ probe.emissions - 1000 * probe.free_alloc > 0
    /\ probe.carbon_price > 0
    /\ 1000 * probe.ets_cost
          > 2 * (probe.emissions - 1000 * probe.free_alloc) * probe.carbon_price
    /\ probe.ets_mismatches = 1
    /\ ~probe.raises

\* C24: the validator checks the ceiling the model was built with.  For an
\* extracted solution, the utilization check raises exactly when some route
\* and year with capacity > tolerance has production / capacity above the
\* utilization passed to build_model plus the tolerance.
C24_ValidatorUsesModelCeiling ==
    (solution # None /\ driver \in {"scenario", "multi"}) =>
       (UtilizationCheckRaises(solution, params)
        <=> \E route \in params.routes, year \in ToSet(params.years) :
               /\ solution.capacity[route][year] > 0
               /\ 1000000 * solution.production[route][year]
                     > (10000 * knobs.utilization + 1) * solution.capacity[route][year])

\* C25: price_fn(commodity, year) raises for a commodity the sheet does not
\* have; otherwise it returns the recorded price when the year is recorded,
\* the earliest recorded price below the recorded range, the latest above
\* it, and strictly between two neighbouring recorded years y1 < year < y2
\* exactly p1 + (p2 - p1) * (year - y1) / (y2 - y1).
C25_PriceLookup ==
    (probe # None /\ probe.fn = "price_fn") =>
       IF probe.commodity \notin DOMAIN probe.price_data
       THEN probe.raises
       ELSE LET series == probe.price_data[probe.commodity]
                rec    == DOMAIN series
                year   == probe.year
                v      == probe.value
            IN  /\ ~probe.raises
                /\ v.den > 0
                /\ year \in rec => v.num = series[year] * v.den
                /\ (\A y \in rec : year < y) =>
                      \E y0 \in rec : /\ \A y \in rec : y0 <= y
                                      /\ v.num = series[y0] * v.den
                /\ (\A y \in rec : year > y) =>
                      \E y9 \in rec : /\ \A y \in rec : y9 >= y
                                      /\ v.num = series[y9] * v.den
                /\ \A y1, y2 \in rec :
                      (/\ y1 < year
                       /\ year < y2
                       /\ \A y \in rec : y <= y1 \/ y >= y2)
                      => v.num * (y2 - y1)
                            = v.den * (series[y1] * (y2 - y1)
                                       + (series[y2] - series[y1]) * (year - y1))

\* A year strictly between two recorded years whose interpolated price is not
\* a whole number.
C25_Witness ==
    /\ probe # None
    /\ probe.fn = "price_fn"
    /\ ~probe.raises
    /\ probe.year \notin DOMAIN probe.price_data[probe.commodity]
    /\ \E y1, y2 \in DOMAIN probe.price_data[probe.commodity] :
          y1 < probe.year /\ probe.year < y2
    /\ probe.value.den > 1

\* C26: the incumbent endowment is enough to meet demand.  In a model built
\* with the default utilization of 0.90, the capacity that capacity_rule gives
\* an incumbent route in the first year with zero builds lets that route
\* produce the whole first-year demand under utilization_rule:
\* utilization * 1.1 * demand[y0] >= demand[y0].
C26_EndowmentMeetsDemand ==
    (model # None /\ model.utilization = 90) =>
       LET y0 == MinOf(ToSet(model.years))
       IN  \A route \in model.routes :
              (Contains("BF-BOF", route) /\ ~Contains("CCUS", route)) =>
                 \A Kry \in 0..(2 * model.demand[y0]) :
                    capacity_rule(model, route, y0, Kry, 0, 0)
                       => utilization_rule(model, route, y0, model.demand[y0], Kry)

\* Builds of route r summed over the horizon years up to y, read from a table
\* b[r][y].
BuildsUpTo(b, r, y) ==
    SumF([yy \in {h \in HorizonYears : h <= y} |-> b[r][yy]])

\* C27: capacity is the running stock of builds.  At every feasible point the
\* solver returns, and in the capacity and builds tables extracted from it,
\* K[r,y] = E[r] + unit_capacity[r] * (sum of Build[r,y'] over horizon years
\* y' <= y), with E[r] = 1.1 * demand[first year] for an incumbent route and
\* 0 otherwise.  (Stated times 10.)
C27_CapacityClosedForm ==
    /\ HasPoint =>
          \A r \in model.routes :
             \A y \in HorizonYears :
                10 * sol.K[r][y]
                   = Endowment10(model, r)
                     + 10 * model.unit_capacity[r] * BuildsUpTo(sol.Build, r, y)
    /\ (HasPoint /\ solution # None) =>
          \A r \in model.routes :
             \A y \in HorizonYears :
                10 * solution.capacity[r][y]
                   = Endowment10(model, r)
                     + 10 * model.unit_capacity[r] * BuildsUpTo(solution.builds, r, y)

\* A feasible point with an endowed route that builds in an earlier year, so
\* that a later year's capacity stacks the endowment and that build.
C27_Witness ==
    /\ HasPoint
    /\ solution # None
    /\ \E r \in model.routes :
          \E y1, y2 \in HorizonYears :
             /\ y1 < y2
             /\ Endowment10(model, r) > 0
             /\ sol.Build[r][y1] > 0
             /\ 10 * sol.K[r][y2]
                   >= Endowment10(model, r) + 10 * model.unit_capacity[r]

Unconstrained(m, r) ==
    /\ m.unit_capacity[r] > 0
    /\ m.scrap_int[r] = 0
    /\ (~Flagged(r) \/ MinOf(ToSet(m.years)) >= 2030)

\* A model with a positive utilization, a non-negative demand path and a
\* route that can take any demand.
DemandCanBeMet(m) ==
    /\ m.utilization > 0
    /\ \A y \in ToSet(m.years) : m.demand[y] >= 0
    /\ \E r \in m.routes : Unconstrained(m, r)

PaidLiability(m, x) ==
    SumF([y \in ToSet(m.years) |->
            discount_factor(m, y) * m.carbon_price[y] * x.ETSpos[y]])

\* C30: the paid liability responds weakly monotonically to the carbon
\* price.  For two bundles that differ only in that every year's carbon
\* price is multiplied by lambda > 1, any optimal solution x of the
\* lower-price model and any optimal solution x_high of the higher-price
\* model, the liability weighted with the lower prices is at x_high at most
\* what it is at x.
C30_LiabilityMonotone ==
    (probe # None /\ probe.fn = "price_response") =>
        LET m_low == build_model(probe.params, probe.knobs)
        IN  /\ probe.lambda > 1
            /\ PaidLiability(m_low, probe.x_high) <= PaidLiability(m_low, probe.x)

\* A pair of optima where the higher prices move production to the cleaner
\* route and the liability at the lower prices falls strictly.
C30_Witness ==
    /\ probe # None
    /\ probe.fn = "price_response"
    /\ LET m_low == build_model(probe.params, probe.knobs)
       IN  /\ PaidLiability(m_low, probe.x_high) < PaidLiability(m_low, probe.x)
           /\ \E r \in m_low.routes, y \in ToSet(m_low.years) :
                 probe.x_high.Q[r][y] > probe.x.Q[r][y]

====
